---- MODULE Spec2Model ----
(***************************************************************************)
(* ZapDrop chunked peer-to-peer file transfer.                             *)
(*                                                                         *)
(* Sender   : src/src/components/FileUploader.tsx  (startSharing,          *)
(*            sendFileInChunks)                                            *)
(* Receiver : src/src/components/ResponsiveLayout.tsx (FileDownloader:     *)
(*            connectToPeer, downloadFile, completeFileDownload)           *)
(*                                                                         *)
(* Spec     : one sender and one receiver joined by one peer session; the  *)
(*            environment delivers messages in FIFO order, fires timers,   *)
(*            may damage a chunk in flight and may close the session.      *)
(* SpecRecv : the receiver alone, fed by a peer that may send any          *)
(*            file-start / file-chunk message.                             *)
(***************************************************************************)
EXTENDS Integers, Sequences, FiniteSets, TLC

(***************************************************************************)
(* Bounds of the model.                                                    *)
(***************************************************************************)
\* FileUploader.tsx:348 sets CHUNK_SIZE = 256 * 1024; the model scales it down.
CHUNK_SIZE == 2
\* Largest size of the file whose size Init chooses.
MaxFileSize == 3
\* Number of request-file messages the receiver may send (sendFileInChunks runs).
MaxRuns == 2
\* Number of chunks the environment may damage in flight.
MaxCorrupt == 1
\* Number of messages the peer of SpecRecv may deliver.
MaxPeerMsgs == 3

\* Number of passwords the user of SpecAuth may submit.
MaxAttempts == 2
\* Number of messages each peer of SpecPeers may send.
MaxConnMsgs == 3
\* Number of chunks of the file of SpecSession, and of calls of resumeTransfer.
TotalChunks == 3
MaxResumes == 3
\* Number of calls of resumeTransfer that may overlap in SpecOverlap.
MaxOverlap == 2
MaxStatsClock == 5
MaxDownloadSize == 4
MaxChunkBytes == 2
HistoryLimit == 10
LargeFileThreshold == 1
ProbeSpread == 1
KiB == 1024
MaxStreamSize == 3
MaxChunkSize == 2
MaxClock == 1
MsPerHour == 1
MaxAgeHours == 1

FileNames == {"a", "b"}
NoHash == -1
NoBlob == <<-1>>

VARIABLES
  \* ---- sender (FileUploader) ----
  files,               \* fileName -> bytes of the File
  connections,         \* connectionsRef.current
  runs,                \* run id -> state of one sendFileInChunks call
  nRuns,               \* number of sendFileInChunks calls made
  completedTransfers,  \* fileName -> boolean
  transferErrors,      \* fileName -> error ("none" when absent)
  password,            \* the password configured for the share ("" when none)
  \* ---- peer session ----
  connState,           \* the peer session: "idle", "open" or "closed"
  s2r,                 \* messages in flight sender -> receiver
  r2s,                 \* messages in flight receiver -> sender
  corruptions,         \* chunks damaged so far
  \* ---- receiver (FileDownloader) ----
  connection,          \* connection state is non-null
  authError,           \* authError state ("" when none)
  passwordRequired,    \* passwordRequired state
  rFiles,              \* files state: list of file names received in file-list
  isDownloading,
  downloadProgress,    \* file names whose downloadProgress entry is defined
  downloadErrors,      \* fileName -> error ("none" when absent)
  verifiedFiles,       \* file names with verifiedFiles[f] = true
  downloadedFiles,     \* fileName -> bytes of the stored Blob (NoBlob when absent)
  handler,             \* window.currentDownloadHandler closure
  verifying,           \* completeFileDownload calls suspended at their awaits
  \* ---- peer of SpecRecv ----
  peerMsgs,            \* messages the peer has delivered so far
  peerLast,            \* the message the peer delivered last
  peerStarted,         \* the peer has delivered the file-start of the download
  peerHonest,          \* the peer has only delivered the transfer of the download, each message once
  peerDelivered,       \* chunk indices of the download the peer has delivered
  \* ---- user of SpecAuth ----
  attempts,            \* passwords the user has submitted so far
  \* ---- sender of SpecPeers: one DataConnection per peer ----
  pState,              \* per connection: "idle", "open" or "closed"
  pIn,                 \* per connection: messages sent by the peer, not yet handled
  pRuns,               \* per connection: the sendFileInChunks call serving it
  pBudget,             \* per connection: messages the peer has sent so far
  \* ---- SpecSession: TransferSessionManager and LargeFileStorage, one fileId ----
  sessionStore,        \* the record of fileId in the sessions object store
  chunkStore,          \* the chunk indices of fileId in the chunks object store
  transferState,       \* the TransferState object created by initializeSession
  activeSessions,      \* activeSessions has the entry of fileId
  transferControllers, \* the controller registered for fileId (0: none)
  abortedCtls,         \* the controllers whose signal is aborted
  loop,                \* the resumeTransfer call: position and local variables
  nResumes,            \* calls of resumeTransfer so far
  sendLog,             \* chunk indices passed to connection.send, in order
  onErrorCalls,        \* the arguments of the calls of onError, in order
  onCompleteCalls,     \* number of calls of onComplete
  cancelPc,            \* cancelTransfer: "none"; with deleteData "deleting", then
                       \* "returned"; without deleteData "kept"
  ackedChunks,         \* chunk indices whose ack with success has been received
  \* ---- SpecOverlap: calls of resumeTransfer that overlap ----
  loops,               \* per call: position and local variables
  \* ---- SpecAssemble: a call of LargeFileStorage.assembleFile ----
  assembly,            \* the call: position, what it has read, its result
  \* ---- SpecCleanup: retention cleanup over the object stores, several fileIds ----
  clock,               \* Date.now()
  sessionsDb,          \* per fileId: its record in the sessions object store
  chunksDb,            \* per fileId: its chunk indices in the chunks object store
  activeStates,        \* per fileId: its entry in activeSessions
  cleanup,             \* the cleanupOldTransfers call: position and local variables
  \* ---- SpecProcess: MemoryOptimizedFileProcessor.processFileStream and its caller ----
  proc,                \* the call: position, arguments, local variables, outcome
  procChunks,          \* the chunk records of the run's fileId in the chunks store
  procSession,         \* the record of the run's fileId in the sessions store
  signalAborted,       \* options.signal.aborted
  \* ---- SpecChunking: the chunk counts the components compute for one file ----
  sizing,              \* the file's size and what each component has computed
  \* ---- SpecLarge: Spec with sharing started by startSharingLargeFiles ----
  processedHash,       \* per file: the fileHash of the session processLargeFile saved
  \* ---- SpecStats: the throughput statistics of one TransferState ----
  stats,               \* speed, ETA, the samples of speedCalculationHistory, Date.now()
  \* ---- SpecWorker: the service worker, for one download URL ----
  download             \* the downloadMap entry of the URL and its response stream

senderVars == <<files, password, connections, runs, nRuns, completedTransfers,
                transferErrors>>
netVars    == <<connState, s2r, r2s, corruptions>>
recvState  == <<connection, authError, passwordRequired, rFiles, isDownloading, downloadProgress, downloadErrors,
                verifiedFiles, downloadedFiles, handler, verifying>>
peerVars   == <<peerMsgs, peerLast, peerStarted, peerHonest, peerDelivered>>
\* State of the parts that take no part in the specification at hand.
authVars   == <<attempts>>
peersVars  == <<pState, pIn, pRuns, pBudget>>
sessionVars == <<sessionStore, chunkStore, transferState, activeSessions,
                 transferControllers, abortedCtls, loop, nResumes, sendLog,
                 onErrorCalls, onCompleteCalls, cancelPc, ackedChunks>>
overlapVars == <<loops>>
assembleVars == <<assembly>>
cleanupVars == <<clock, sessionsDb, chunksDb, activeStates, cleanup>>
processVars == <<proc, procChunks, procSession, signalAborted>>
chunkingVars == <<sizing>>
largeVars  == <<processedHash>>
statsVars  == <<stats>>
workerVars == <<download>>
moreVars   == <<chunkingVars, largeVars, statsVars, workerVars>>
olderVars  == <<senderVars, netVars, recvState, peerVars, authVars, peersVars,
                sessionVars, overlapVars, assembleVars, cleanupVars, processVars>>
laterVars  == <<overlapVars, assembleVars, cleanupVars, processVars, moreVars>>
aside      == <<authVars, peersVars, sessionVars, laterVars>>
vars       == <<senderVars, netVars, recvState, peerVars, aside>>

(***************************************************************************)
(* Pure helpers.                                                           *)
(***************************************************************************)
Min(x, y) == IF x < y THEN x ELSE y

\* Math.ceil(file.size / CHUNK_SIZE)
TotalChunksOf(size) == (size + CHUNK_SIZE - 1) \div CHUNK_SIZE

\* Blob.slice(start, end) on 0-based offsets.
Slice(bytes, start, end) == SubSeq(bytes, start + 1, end)

\* crypto.subtle.digest('SHA-256', buffer) rendered as a hex string. SHA-256 is
\* modelled as a collision-free fingerprint: the positional encoding of the
\* bytes (digits 1 and 2 in base 3), which is different for different byte
\* sequences, the empty one included.
RECURSIVE Digest(_)
Digest(bytes) ==
  IF bytes = <<>> THEN 0
  ELSE 3 * Digest(SubSeq(bytes, 1, Len(bytes) - 1)) + bytes[Len(bytes)] + 1

RECURSIVE ChunkHashes(_, _, _)
\* combinedHashes: the digests of the chunks i, i+1, ... of bytes cut with
\* chunkSize.
ChunkHashes(bytes, chunkSize, i) ==
  IF i * chunkSize >= Len(bytes) THEN <<>>
  ELSE <<Digest(SubSeq(bytes, i * chunkSize + 1,
                       IF (i + 1) * chunkSize < Len(bytes)
                       THEN (i + 1) * chunkSize ELSE Len(bytes)))>>
         \o ChunkHashes(bytes, chunkSize, i + 1)

RECURSIVE DigestOfDigests(_, _)
\* The digest of the buffer made of chunk digests.  Collision-free as
\* Digest is, and different from the digest of every file content: a
\* number below NoHash that encodes the chunk digests, base being larger
\* than every chunk digest.
DigestOfDigests(hashes, base) ==
  IF hashes = <<>> THEN 0
  ELSE base * DigestOfDigests(SubSeq(hashes, 1, Len(hashes) - 1), base)
         + hashes[Len(hashes)] + 1

RECURSIVE PowerOf3(_)
PowerOf3(n) == IF n = 0 THEN 1 ELSE 3 * PowerOf3(n - 1)

\* The fileHash processFileStream returns: the digest of the concatenated
\* chunk digests; for a file without chunks, the digest of an empty buffer.
StreamFingerprint(bytes, chunkSize) ==
  IF bytes = <<>> THEN Digest(<<>>)
  ELSE NoHash - DigestOfDigests(ChunkHashes(bytes, chunkSize, 0),
                                PowerOf3(chunkSize + 1))

\* The content of a file of a given size: alternating bytes, starting with `first`.
Content(first, size) == [k \in 1..size |-> (first + k + 1) % 2]

(***************************************************************************)
(* The peer session (PeerJS DataConnection, consumed interface).           *)
(***************************************************************************)
\* conn.open
connOpen == connState = "open"

\* conn.send(message) for each message of msgs: queued on an open connection,
\* dropped on a closed one.
Send(chan, msgs) == IF connOpen THEN chan \o msgs ELSE chan

(***************************************************************************)
(* Sender: wire messages.                                                  *)
(***************************************************************************)
\* new Uint8Array(arrayBuffer): a view of a whole buffer.
Uint8(bytes) == [kind |-> "Uint8Array", bytes |-> bytes, byteOffset |-> 0,
                 byteLength |-> Len(bytes)]

FileListMsg ==
  [type |-> "file-list", files |-> <<"a", "b">>, passwordRequired |-> password # ""]

\* file-start announcing, for a processed file, the fileHash of its session.
FileStartMsg_session(f) ==
  [type |-> "file-start", fileName |-> f, fileSize |-> Len(files[f]),
   totalChunks |-> TotalChunksOf(Len(files[f])),
   fileHash |-> IF processedHash[f] # NoHash THEN processedHash[f]
                ELSE Digest(files[f])]

FileStartMsg(f) ==
  [type |-> "file-start", fileName |-> f, fileSize |-> Len(files[f]),
   totalChunks |-> TotalChunksOf(Len(files[f])), fileHash |-> Digest(files[f])]

\* isLast: i === totalChunks - 1
IsLastChunk_offByOne(i, totalChunks) == i = totalChunks

IsLastChunk(i, totalChunks) == i = totalChunks - 1

\* file.slice(start, end) with start = i * CHUNK_SIZE, end = min(start + CHUNK_SIZE, size)
ChunkBytes(bytes, i) ==
  Slice(bytes, i * CHUNK_SIZE, Min(i * CHUNK_SIZE + CHUNK_SIZE, Len(bytes)))

ChunkMsg(f, i) ==
  [type |-> "file-chunk", fileName |-> f, chunkIndex |-> i,
   totalChunks |-> TotalChunksOf(Len(files[f])),
   data |-> Uint8(ChunkBytes(files[f], i)),
   isLast |-> IsLastChunk(i, TotalChunksOf(Len(files[f])))]

TransferErrorMsg(f, e) == [type |-> "transfer-error", fileName |-> f, error |-> e]

(***************************************************************************)
(* Sender: one sendFileInChunks call.                                      *)
(*   pc: "idle"    slot not used                                           *)
(*       "hash"    awaiting file.arrayBuffer() / crypto.subtle.digest      *)
(*       "read"    awaiting chunk.arrayBuffer() of chunk i                 *)
(*       "waitack" chunk i sent, awaiting the acknowledgement promise      *)
(*       "delay"   awaiting the 10 ms delay after chunk i                  *)
(*       "final"   awaiting the final confirmation promise                 *)
(*       "done"    resolved   "failed"  rejected                           *)
(*   sent: the messages the call has passed to conn.send, in order (a      *)
(*         record of its calls; the call itself never reads it).           *)
(***************************************************************************)
IdleRun ==
  [file |-> "none", pc |-> "idle", i |-> 0, pendingChunks |-> {},
   acknowledgedChunks |-> 0, ackListener |-> FALSE, completeListener |-> FALSE,
   sawComplete |-> FALSE, error |-> "none", sent |-> <<>>]

NewRun(f) == [IdleRun EXCEPT !.file = f, !.pc = "hash"]

RunTotalChunks(run) == TotalChunksOf(Len(files[run.file]))

FailedRun_pending(run, err) == [run EXCEPT !.error = err]

\* catch / finally of sendFileInChunks: the listener is removed, the error rethrown.
FailedRun(run, err) ==
  [run EXCEPT !.pc = "failed", !.error = err, !.ackListener = FALSE]

\* The head of the for loop with loop variable i, and what follows the loop,
\* of a call whose connection has conn.open = open.
LoopTopOn(open, run, i) ==
  IF i < RunTotalChunks(run)
  THEN IF ~open
       THEN FailedRun([run EXCEPT !.i = i], "ConnectionLost")
       ELSE [run EXCEPT !.i = i, !.pc = "read"]
  ELSE [run EXCEPT !.i = i, !.pc = "final", !.completeListener = TRUE]

LoopTop(run, i) == LoopTopOn(connOpen, run, i)

\* handleChunkAck(data)
handleChunkAck(run, data) ==
  IF ~run.ackListener THEN run
  ELSE IF data.type = "chunk-ack" /\ data.fileName = run.file
  THEN [run EXCEPT !.acknowledgedChunks = @ + 1,
                   !.pendingChunks = @ \ {data.chunkIndex}]
  ELSE IF data.type = "file-complete" /\ data.fileName = run.file
  THEN [run EXCEPT !.sawComplete = TRUE]
  ELSE run

AckArrived_always(run) == TRUE

\* checkAck's test: !pendingChunks.has(i)
AckArrived(run) == run.i \notin run.pendingChunks

\* checkComplete's test
CompleteMatches(run, data) ==
  data.type = "file-complete" /\ data.fileName = run.file /\ data.verified = TRUE

\* checkComplete(data): removes itself and resolves the final promise; the
\* finally block then removes handleChunkAck.
checkComplete(run, data) ==
  IF run.completeListener /\ CompleteMatches(run, data)
  THEN IF run.pc = "final"
       THEN [run EXCEPT !.completeListener = FALSE, !.pc = "done",
                        !.ackListener = FALSE]
       ELSE [run EXCEPT !.completeListener = FALSE]
  ELSE run

FailureMsgs_none(run) == <<>>

\* The two transfer-error messages of a failed call: one from the catch block of
\* sendFileInChunks, one from the catch block of the request-file handler.
FailureMsgs(run) ==
  <<TransferErrorMsg(run.file, run.error), TransferErrorMsg(run.file, run.error)>>

\* A step of run r to newRun, sending out; a call that ends is followed by the
\* rest of the request-file handler (setCompletedTransfers / setTransferErrors).
CommitRun(r, newRun, out) ==
  LET failedNow == newRun.pc = "failed"
      doneNow   == newRun.pc = "done"
      f         == newRun.file
      msgs      == out \o (IF failedNow THEN FailureMsgs(newRun) ELSE <<>>)
  IN /\ runs' = [runs EXCEPT ![r] = [newRun EXCEPT !.sent = @ \o msgs]]
     /\ s2r' = Send(s2r, msgs)
     /\ transferErrors' =
          IF failedNow THEN [transferErrors EXCEPT ![f] = newRun.error]
          ELSE transferErrors
     /\ completedTransfers' =
          IF doneNow THEN [completedTransfers EXCEPT ![f] = TRUE]
          ELSE completedTransfers
     /\ UNCHANGED connections

Runs == 1..MaxRuns

\* The hash is computed: file-start is sent, handleChunkAck registered, the loop entered.
HashDone(r) ==
  /\ runs[r].pc = "hash"
  /\ CommitRun(r, LoopTop([runs[r] EXCEPT !.ackListener = TRUE], 0),
               <<FileStartMsg(runs[r].file)>>)
  /\ UNCHANGED <<files, password, nRuns, connState, r2s, corruptions,
                 recvState, peerVars, aside>>

\* The chunk is read: pendingChunks.add(i), the chunk is sent, the wait begins.
ChunkRead(r) ==
  /\ runs[r].pc = "read"
  /\ CommitRun(r, [runs[r] EXCEPT !.pendingChunks = @ \cup {runs[r].i},
                                  !.pc = "waitack"],
               <<ChunkMsg(runs[r].file, runs[r].i)>>)
  /\ UNCHANGED <<files, password, nRuns, connState, r2s, corruptions,
                 recvState, peerVars, aside>>

\* checkAck finds the chunk acknowledged: clearTimeout, resolve.
PollAck(r) ==
  /\ runs[r].pc = "waitack"
  /\ AckArrived(runs[r])
  /\ CommitRun(r, [runs[r] EXCEPT !.pc = "delay"], <<>>)
  /\ UNCHANGED <<files, password, nRuns, connState, r2s, corruptions,
                 recvState, peerVars, aside>>

\* The 5 s timer fires while the chunk is still pending: reject.
AckTimeout(r) ==
  /\ runs[r].pc = "waitack"
  /\ runs[r].i \in runs[r].pendingChunks
  /\ CommitRun(r, FailedRun(runs[r], "ChunkTimeout"), <<>>)
  /\ UNCHANGED <<files, password, nRuns, connState, r2s, corruptions,
                 recvState, peerVars, aside>>

\* The 10 ms delay ends: i++ and the loop head, or the final wait.
DelayDone(r) ==
  /\ runs[r].pc = "delay"
  /\ CommitRun(r, LoopTop(runs[r], runs[r].i + 1), <<>>)
  /\ UNCHANGED <<files, password, nRuns, connState, r2s, corruptions,
                 recvState, peerVars, aside>>

\* The 10 s timer of the final wait fires: reject (checkComplete stays registered).
FinalTimeout(r) ==
  /\ runs[r].pc = "final"
  /\ CommitRun(r, FailedRun(runs[r], "FinalAckTimeout"), <<>>)
  /\ UNCHANGED <<files, password, nRuns, connState, r2s, corruptions,
                 recvState, peerVars, aside>>

(***************************************************************************)
(* Sender: the conn.on('data') handler of startSharing, together with the  *)
(* listeners the running calls have registered on the same connection.     *)
(***************************************************************************)
SenderGets(type) == connOpen /\ r2s # <<>> /\ Head(r2s).type = type

SenderRequestInfo ==
  /\ SenderGets("request-info")
  /\ r2s' = Tail(r2s)
  /\ s2r' = Send(s2r, <<FileListMsg>>)
  /\ UNCHANGED <<senderVars, connState, corruptions, recvState, peerVars,
                 aside>>

PasswordAccepted_any(configured, supplied) == TRUE

\* The test of the password handler: !(password && data.password !== password)
PasswordAccepted(configured, supplied) ==
  configured = "" \/ supplied = configured

PasswordMsg(p) == [type |-> "password", password |-> p]
AuthReplyMsg(ok) == [type |-> IF ok THEN "auth-success" ELSE "auth-failed"]

\* password: auth-failed or auth-success; nothing is remembered.
SenderPassword ==
  /\ SenderGets("password")
  /\ r2s' = Tail(r2s)
  /\ s2r' = Send(s2r, <<AuthReplyMsg(PasswordAccepted(password, Head(r2s).password))>>)
  /\ UNCHANGED <<senderVars, connState, corruptions, recvState, peerVars, aside>>

\* request-file: files.find, then sendFileInChunks up to its first await.
SenderRequestFile ==
  /\ SenderGets("request-file")
  /\ nRuns < MaxRuns
  /\ r2s' = Tail(r2s)
  /\ IF Head(r2s).fileName \in DOMAIN files
     THEN /\ nRuns' = nRuns + 1
          /\ runs' = [runs EXCEPT ![nRuns + 1] = NewRun(Head(r2s).fileName)]
     ELSE UNCHANGED <<nRuns, runs>>
  /\ UNCHANGED <<files, password, connections, completedTransfers,
                 transferErrors, connState, s2r, corruptions, recvState,
                 peerVars, aside>>

SenderChunkAck ==
  /\ SenderGets("chunk-ack")
  /\ r2s' = Tail(r2s)
  /\ runs' = [r \in Runs |-> handleChunkAck(runs[r], Head(r2s))]
  /\ UNCHANGED <<files, password, connections, nRuns, completedTransfers,
                 transferErrors, connState, s2r, corruptions, recvState,
                 peerVars, aside>>

\* file-complete: the handler of startSharing marks the file completed; then
\* handleChunkAck and checkComplete of the running calls see the message.
SenderFileComplete ==
  /\ SenderGets("file-complete")
  /\ r2s' = Tail(r2s)
  /\ runs' = [r \in Runs |-> checkComplete(handleChunkAck(runs[r], Head(r2s)), Head(r2s))]
  /\ completedTransfers' = [completedTransfers EXCEPT ![Head(r2s).fileName] = TRUE]
  /\ UNCHANGED <<files, password, connections, nRuns, transferErrors,
                 connState, s2r, corruptions, recvState, peerVars, aside>>

SenderFileError ==
  /\ SenderGets("file-error")
  /\ r2s' = Tail(r2s)
  /\ transferErrors' = [transferErrors EXCEPT ![Head(r2s).fileName] = Head(r2s).error]
  /\ UNCHANGED <<files, password, connections, runs, nRuns,
                 completedTransfers, connState, s2r, corruptions, recvState,
                 peerVars, aside>>

(***************************************************************************)
(* Receiver: payload conversion and reassembly (pure).                     *)
(***************************************************************************)
\* The conversion of data.data to an ArrayBuffer in currentDownloadHandler.
\* status "ok" with the bytes, "error" with the error recorded, or "throws"
\* when the handler is left by an exception before any branch is taken
\* (data.data is null: typeof null is 'object' and null.type throws).
ToArrayBuffer(data) ==
  CASE data.kind = "ArrayBuffer" ->
         [status |-> "ok", bytes |-> data.bytes, error |-> "none"]
    [] data.kind = "Uint8Array" ->
         [status |-> "ok",
          bytes |-> Slice(data.bytes, data.byteOffset, data.byteOffset + data.byteLength),
          error |-> "none"]
    [] data.kind = "null" ->
         [status |-> "throws", bytes |-> <<>>, error |-> "none"]
    [] data.kind \in {"Buffer", "Array", "TypedArray"} ->
         [status |-> "ok", bytes |-> data.bytes, error |-> "none"]
    [] data.kind = "DataView" ->
         [status |-> "ok", bytes |-> <<>>, error |-> "none"]
    [] data.kind = "BadLength" ->
         [status |-> "error", bytes |-> <<>>, error |-> "InvalidChunkDataFormat"]
    [] OTHER ->
         [status |-> "error", bytes |-> <<>>, error |-> "InvalidChunkDataType"]

\* fileChunks[index] = chunkData
StoreChunk(fileChunks, index, chunkData) ==
  [j \in (DOMAIN fileChunks) \cup {index} |->
     IF j = index THEN chunkData ELSE fileChunks[j]]

\* completeFileDownload: the indices i < totalChunks with !fileChunks[i]
MissingChunks(fileChunks, totalChunks) ==
  {i \in 0..(totalChunks - 1) : i \notin DOMAIN fileChunks}

\* completeFileDownload: the indices present with byteLength === 0
CorruptedChunks(fileChunks, totalChunks) ==
  {i \in 0..(totalChunks - 1) : i \in DOMAIN fileChunks /\ Len(fileChunks[i]) = 0}

\* orderedChunks: the chunks 0..totalChunks-1 pushed in index order.
OrderedChunks(fileChunks, totalChunks) ==
  [k \in 1..totalChunks |-> fileChunks[k - 1]]

\* new Blob(orderedChunks): the concatenation of the array's buffers.
RECURSIVE BlobOf(_)
BlobOf(orderedChunks) ==
  IF orderedChunks = <<>> THEN <<>>
  ELSE BlobOf(SubSeq(orderedChunks, 1, Len(orderedChunks) - 1))
         \o orderedChunks[Len(orderedChunks)]

\* totalSize: the sum of the byteLength of the chunks 0..n-1 (all present).
RECURSIVE TotalSize(_, _)
TotalSize(fileChunks, n) ==
  IF n <= 0 THEN 0
  ELSE TotalSize(fileChunks, n - 1) + Len(fileChunks[n - 1])

SizeDiffers_never(totalSize, expectedFileSize) == FALSE

\* totalSize !== expectedFileSize
SizeDiffers(totalSize, expectedFileSize) == totalSize # expectedFileSize

HashDiffers_never(receivedHash, expectedFileHash) == FALSE

\* receivedHash !== expectedFileHash
HashDiffers(receivedHash, expectedFileHash) == receivedHash # expectedFileHash

\* The synchronous part of completeFileDownload, up to its first await:
\* the failure it reports, or "hashing" when the Blob was built.
VerifySync(fileChunks, totalChunks, expectedFileSize) ==
  IF MissingChunks(fileChunks, totalChunks) # {} THEN "MissingChunks"
  ELSE IF CorruptedChunks(fileChunks, totalChunks) # {} THEN "CorruptedChunks"
  ELSE IF SizeDiffers(TotalSize(fileChunks, totalChunks), expectedFileSize)
       THEN "SizeMismatch"
  ELSE "hashing"

\* if (data.isLast || receivedChunks === totalChunks)
AllChunksReceived(isLast, receivedChunks, totalChunks) ==
  isLast \/ receivedChunks = totalChunks

(***************************************************************************)
(* Receiver: state and handlers.                                           *)
(***************************************************************************)
\* window.currentDownloadHandler is not set.
NoHandler ==
  [fileName |-> "none", fileChunks |-> <<>>, totalChunks |-> 0,
   expectedFileSize |-> 0, expectedFileHash |-> NoHash, receivedChunks |-> 0]

\* The closure downloadFile(fileName) installs.
FreshHandler(f) == [NoHandler EXCEPT !.fileName = f]

ChunkAckMsg(f, i) == [type |-> "chunk-ack", fileName |-> f, chunkIndex |-> i]
FileErrorMsg(f, e) == [type |-> "file-error", fileName |-> f, error |-> e]
FileCompleteMsg(f, blob) ==
  [type |-> "file-complete", fileName |-> f, verified |-> TRUE,
   fileSize |-> Len(blob), fileHash |-> Digest(blob)]
RequestFileMsg(f) == [type |-> "request-file", fileName |-> f]

\* conn.on('data'): file-list
OnFileList(m, chan) ==
  /\ rFiles' = m.files
  /\ passwordRequired' = m.passwordRequired
  /\ r2s' = chan
  /\ UNCHANGED <<connection, authError, isDownloading,
                 downloadProgress, downloadErrors, verifiedFiles,
                 downloadedFiles, handler, verifying>>

\* conn.on('data'): auth-failed
OnAuthFailed(chan) ==
  /\ authError' = "Incorrect password"
  /\ r2s' = chan
  /\ UNCHANGED <<connection, passwordRequired, rFiles, isDownloading,
                 downloadProgress, downloadErrors, verifiedFiles,
                 downloadedFiles, handler, verifying>>

\* conn.on('data'): auth-success
OnAuthSuccess(chan) ==
  /\ authError' = ""
  /\ passwordRequired' = FALSE
  /\ r2s' = chan
  /\ UNCHANGED <<connection, rFiles, isDownloading, downloadProgress,
                 downloadErrors, verifiedFiles, downloadedFiles, handler,
                 verifying>>

\* The password panel is rendered.
CanSubmitPassword == passwordRequired /\ connection

\* submitPassword() with p typed in the password field
submitPassword(p, chan) ==
  /\ r2s' = IF connection THEN Send(chan, <<PasswordMsg(p)>>) ELSE chan
  /\ UNCHANGED recvState

\* conn.on('data'): transfer-error
OnTransferError(m, chan) ==
  /\ downloadErrors' = [downloadErrors EXCEPT ![m.fileName] = m.error]
  /\ isDownloading' = FALSE
  /\ r2s' = chan
  /\ UNCHANGED <<connection, authError, passwordRequired, rFiles,
                 downloadProgress, verifiedFiles, downloadedFiles, handler,
                 verifying>>

\* handleFileChunk -> currentDownloadHandler: file-start
OnFileStart(m, chan) ==
  /\ handler' =
       IF handler.fileName # "none" /\ m.fileName = handler.fileName
       THEN [handler EXCEPT !.totalChunks = m.totalChunks,
                            !.expectedFileSize = m.fileSize,
                            !.expectedFileHash = m.fileHash]
       ELSE handler
  /\ r2s' = chan
  /\ UNCHANGED <<connection, authError, passwordRequired, rFiles,
                 isDownloading, downloadProgress, downloadErrors,
                 verifiedFiles, downloadedFiles, verifying>>

\* handleFileChunk -> currentDownloadHandler: file-chunk, followed by the
\* synchronous part of completeFileDownload when the completion test holds.
OnFileChunk(m, chan) ==
  LET f    == handler.fileName
      conv == ToArrayBuffer(m.data)
      rest == <<connection, authError, passwordRequired, rFiles, isDownloading,
                downloadProgress, verifiedFiles, downloadedFiles, handler, verifying>>
  IN
  IF f = "none" \/ m.fileName # f \/ conv.status = "throws"
  THEN r2s' = chan /\ UNCHANGED recvState
  ELSE IF conv.status = "error"
  THEN /\ downloadErrors' = [downloadErrors EXCEPT ![f] = conv.error]
       /\ r2s' = chan
       /\ UNCHANGED rest
  ELSE IF Len(conv.bytes) = 0
  THEN /\ downloadErrors' = [downloadErrors EXCEPT ![f] = "EmptyChunk"]
       /\ r2s' = chan
       /\ UNCHANGED rest
  ELSE
    LET stored   == StoreChunk(handler.fileChunks, m.chunkIndex, conv.bytes)
        received == handler.receivedChunks + 1
        ack      == ChunkAckMsg(f, m.chunkIndex)
        complete == AllChunksReceived(m.isLast, received, handler.totalChunks)
        outcome  == VerifySync(stored, handler.totalChunks, handler.expectedFileSize)
    IN /\ handler' = [handler EXCEPT !.fileChunks = stored,
                                     !.receivedChunks = received]
       /\ UNCHANGED <<connection, authError, passwordRequired, rFiles,
                 downloadProgress, verifiedFiles, downloadedFiles>>
       /\ IF ~complete
          THEN /\ r2s' = Send(chan, <<ack>>)
               /\ UNCHANGED <<isDownloading, downloadErrors, verifying>>
          ELSE IF outcome = "hashing"
          THEN /\ r2s' = Send(chan, <<ack>>)
               /\ verifying' = Append(verifying,
                    [fileName |-> f,
                     orderedChunks |-> OrderedChunks(stored, handler.totalChunks),
                     totalChunks |-> handler.totalChunks,
                     expectedFileSize |-> handler.expectedFileSize,
                     expectedFileHash |-> handler.expectedFileHash])
               /\ UNCHANGED <<isDownloading, downloadErrors>>
          ELSE /\ r2s' = Send(chan, <<ack, FileErrorMsg(f, outcome)>>)
               /\ downloadErrors' = [downloadErrors EXCEPT ![f] = outcome]
               /\ isDownloading' = FALSE
               /\ UNCHANGED verifying

RemoveAt(seq, k) == SubSeq(seq, 1, k - 1) \o SubSeq(seq, k + 1, Len(seq))

\* An element of verifying holds the locals of one suspended call.
\* completeFileDownload after its awaits (blob.arrayBuffer, digest): the hash
\* comparison, then file-error or file-complete and the stored result.
VerifyFinishOn(k, chan) ==
  LET task == verifying[k]
      f    == task.fileName
      blob == BlobOf(task.orderedChunks)
  IN /\ verifying' = RemoveAt(verifying, k)
     /\ isDownloading' = FALSE
     /\ UNCHANGED <<connection, authError, passwordRequired, rFiles,
                 downloadProgress, handler>>
     /\ IF HashDiffers(Digest(blob), task.expectedFileHash)
        THEN /\ downloadErrors' = [downloadErrors EXCEPT ![f] = "IntegrityMismatch"]
             /\ r2s' = Send(chan, <<FileErrorMsg(f, "IntegrityMismatch")>>)
             /\ UNCHANGED <<verifiedFiles, downloadedFiles>>
        ELSE /\ r2s' = Send(chan, <<FileCompleteMsg(f, blob)>>)
             /\ downloadedFiles' = [downloadedFiles EXCEPT ![f] = blob]
             /\ verifiedFiles' = verifiedFiles \cup {f}
             /\ downloadErrors' = [downloadErrors EXCEPT ![f] = "none"]

\* downloadFile(fileName) for each name of fs in turn (one click).
DownloadFiles(fs, chan) ==
  /\ isDownloading' = TRUE
  /\ downloadProgress' = downloadProgress \cup {fs[k] : k \in 1..Len(fs)}
  /\ handler' = FreshHandler(fs[Len(fs)])
  /\ r2s' = Send(chan, [k \in 1..Len(fs) |-> RequestFileMsg(fs[k])])
  /\ UNCHANGED <<connection, authError, passwordRequired, rFiles,
                 downloadErrors, verifiedFiles, downloadedFiles, verifying>>

CanClickDownload_ungated(f) ==
  /\ connection
  /\ \E k \in 1..Len(rFiles) : rFiles[k] = f
  /\ ~isDownloading
  /\ f \notin downloadProgress

\* The Download button of file f is rendered and enabled.
CanClickDownload(f) ==
  /\ connection
  /\ ~passwordRequired
  /\ \E k \in 1..Len(rFiles) : rFiles[k] = f
  /\ ~(downloadedFiles[f] # NoBlob /\ f \in verifiedFiles)
  /\ downloadErrors[f] = "none"
  /\ ~isDownloading
  /\ f \notin downloadProgress

\* The Download All Files button is rendered and enabled.
CanClickDownloadAll ==
  /\ connection
  /\ ~passwordRequired
  /\ Len(rFiles) > 1
  /\ ~isDownloading

(***************************************************************************)
(* Spec: sender, receiver and the peer session between them.               *)
(***************************************************************************)
\* The files array of the sender: "a" of a size chosen here, "b" of one byte.
FileTables ==
  {[f \in FileNames |-> IF f = "a" THEN Content(1, n) ELSE Content(0, 1)] :
     n \in 0..MaxFileSize}

Conns == {"A", "B"}

\* No record of fileId in the sessions store (getSession resolves to null).
NoSession ==
  [exists |-> FALSE, totalChunks |-> 0, completedChunks |-> <<>>, isComplete |-> FALSE]

\* The session record initializeSession creates.
NewSession ==
  [exists |-> TRUE, totalChunks |-> TotalChunks, completedChunks |-> <<>>,
   isComplete |-> FALSE]

\* transferState.progress: (chunks / totalChunks) * 100, rounded down.
ProgressOf(chunks, totalChunks) == (chunks * 100) \div totalChunks

\* The TransferState initializeSession creates for a session.
NewTransferState(session) ==
  [status |-> "idle", transferredChunks |-> Len(session.completedChunks),
   progress |-> ProgressOf(Len(session.completedChunks), session.totalChunks),
   canResume |-> Len(session.completedChunks) > 0, error |-> "none"]

NoLoop ==
  [pc |-> "none", controller |-> 0, session |-> NoSession, got |-> NoSession,
   gotChunk |-> FALSE, remaining |-> <<>>, pos |-> 0]

\* The fileIds of SpecCleanup, in the key order of the sessions store.
FileOrder == <<"f1", "f2">>
FileIds == {FileOrder[i] : i \in 1..Len(FileOrder)}

\* The values of TransferState.status the session manager assigns.
Statuses == {"idle", "transferring", "paused", "complete", "error"}

\* No record of the fileId in the sessions store.
NoRecord == [exists |-> FALSE, timestamp |-> 0, isComplete |-> FALSE]

\* No entry of the fileId in activeSessions.
NoState == [present |-> FALSE, status |-> "idle", lastActivity |-> 0]

\* cleanupOldTransfers has not been called.
NoCleanup ==
  [pc |-> "none", maxAgeHours |-> 0, cutoffTime |-> 0, sessions |-> <<>>,
   sessionsBefore |-> <<>>, chunksBefore |-> <<>>]

\* A number as a fraction num / den; den = 0 stands for a non-finite value.
Fraction(num, den) == [num |-> num, den |-> den]

\* No TransferState has been created.
NoStats ==
  [initialized |-> FALSE, now |-> 0, transferredChunks |-> 0, history |-> <<>>,
   transferSpeed |-> Fraction(0, 1), estimatedTimeRemaining |-> Fraction(0, 1)]

\* No DOWNLOAD_START has been received: downloadMap is empty.
NoDownload ==
  [started |-> FALSE, registered |-> FALSE, size |-> 0, posted |-> 0,
   chunks |-> <<>>, receivedBytes |-> 0, fetched |-> FALSE,
   controller |-> FALSE, enqueued |-> <<>>, closed |-> FALSE,
   closeCalls |-> 0, errors |-> 0, completePosted |-> FALSE]

\* No file has been selected.
NoSizing ==
  [selected |-> FALSE, fileSize |-> [kib |-> 0, rem |-> 0],
   session |-> 0, processed |-> 0, announced |-> 0,
   sessionChunkSize |-> 0, processedChunkSize |-> 0, sentChunkSize |-> 0]

\* processFileStream has not been called.
NoProc ==
  [pc |-> "none", caller |-> "none", hasSignal |-> FALSE, file |-> <<>>,
   chunkSize |-> 1, totalChunks |-> 0, chunkIndex |-> 0, processedChunks |-> 0,
   stored |-> FALSE, cbLog |-> <<>>, result |-> "none", error |-> ""]

\* assembleFile has not been called.
NoAssembly ==
  [pc |-> "none", chunks |-> <<>>, session |-> NoSession, result |-> "none",
   blob |-> <<>>]

\* initializeSession(fileId, file, connection) has run for a new file whose
\* chunks are in the chunks store.
InitSessionVars ==
  /\ sessionStore = NewSession
  /\ chunkStore = 0..(TotalChunks - 1)
  /\ transferState = NewTransferState(NewSession)
  /\ activeSessions = TRUE
  /\ transferControllers = 0
  /\ abortedCtls = {}
  /\ loop = NoLoop
  /\ nResumes = 0
  /\ sendLog = <<>>
  /\ onErrorCalls = <<>>
  /\ onCompleteCalls = 0
  /\ cancelPc = "none"
  /\ ackedChunks = {}
  /\ loops = [n \in 1..MaxOverlap |-> NoLoop]
  /\ assembly = NoAssembly
  /\ clock = 0
  /\ sessionsDb = [f \in FileIds |-> NoRecord]
  /\ chunksDb = [f \in FileIds |-> {}]
  /\ activeStates = [f \in FileIds |-> NoState]
  /\ cleanup = NoCleanup
  /\ proc = NoProc
  /\ procChunks = {}
  /\ procSession = NoSession
  /\ signalAborted = FALSE
  /\ sizing = NoSizing
  /\ processedHash = [f \in FileNames |-> NoHash]
  /\ stats = NoStats
  /\ download = NoDownload

InitPeer ==
  /\ InitSessionVars
  /\ attempts = 0
  /\ pState = [c \in Conns |-> "idle"]
  /\ pIn = [c \in Conns |-> <<>>]
  /\ pRuns = [c \in Conns |-> IdleRun]
  /\ pBudget = [c \in Conns |-> 0]
  /\ peerMsgs = 0
  /\ peerLast = [type |-> "none"]
  /\ peerStarted = FALSE
  /\ peerHonest = FALSE
  /\ peerDelivered = {}

\* Both pages are loaded, the sender has called startSharing, no peer has connected.
InitState ==
  /\ files \in FileTables
  /\ connections = {}
  /\ runs = [r \in Runs |-> IdleRun]
  /\ nRuns = 0
  /\ completedTransfers = [f \in FileNames |-> FALSE]
  /\ transferErrors = [f \in FileNames |-> "none"]
  /\ connState = "idle"
  /\ s2r = <<>>
  /\ r2s = <<>>
  /\ corruptions = 0
  /\ connection = FALSE
  /\ authError = ""
  /\ passwordRequired = FALSE
  /\ rFiles = <<>>
  /\ isDownloading = FALSE
  /\ downloadProgress = {}
  /\ downloadErrors = [f \in FileNames |-> "none"]
  /\ verifiedFiles = {}
  /\ downloadedFiles = [f \in FileNames |-> NoBlob]
  /\ handler = NoHandler
  /\ verifying = <<>>
  /\ InitPeer

\* The share has no password.
Init == password = "" /\ InitState

\* peer.on('connection') at the sender, conn.on('open') at the receiver.
Connect ==
  /\ connState = "idle"
  /\ connState' = "open"
  /\ connections' = connections \cup {"conn"}
  /\ connection' = TRUE
  /\ r2s' = <<[type |-> "request-info"]>>
  /\ UNCHANGED <<files, password, runs, nRuns, completedTransfers,
                 transferErrors, s2r, corruptions, authError, passwordRequired, rFiles, isDownloading,
                 downloadProgress, downloadErrors, verifiedFiles,
                 downloadedFiles, handler, verifying, peerVars, aside>>

\* The transport closes the session: conn.on('close') on both sides; what was
\* in flight is lost.
Close ==
  /\ connState = "open"
  /\ connState' = "closed"
  /\ connections' = connections \ {"conn"}
  /\ connection' = FALSE
  /\ s2r' = <<>>
  /\ r2s' = <<>>
  /\ UNCHANGED <<files, password, runs, nRuns, completedTransfers,
                 transferErrors, corruptions, authError, passwordRequired, rFiles, isDownloading,
                 downloadProgress, downloadErrors, verifiedFiles,
                 downloadedFiles, handler, verifying, peerVars, aside>>

\* A chunk is damaged in flight: its first byte is changed.
Damaged(m) == [m EXCEPT !.data.bytes[1] = 1 - @]

Corrupt(k) ==
  /\ corruptions < MaxCorrupt
  /\ s2r[k].type = "file-chunk"
  /\ Len(s2r[k].data.bytes) > 0
  /\ s2r' = [s2r EXCEPT ![k] = Damaged(s2r[k])]
  /\ corruptions' = corruptions + 1
  /\ UNCHANGED <<senderVars, connState, r2s, recvState, peerVars, aside>>

ReceiverGets(type) == connOpen /\ s2r # <<>> /\ Head(s2r).type = type

RecvFileList ==
  /\ ReceiverGets("file-list")
  /\ s2r' = Tail(s2r)
  /\ OnFileList(Head(s2r), r2s)
  /\ UNCHANGED <<senderVars, connState, corruptions, peerVars, aside>>

RecvFileStart ==
  /\ ReceiverGets("file-start")
  /\ s2r' = Tail(s2r)
  /\ OnFileStart(Head(s2r), r2s)
  /\ UNCHANGED <<senderVars, connState, corruptions, peerVars, aside>>

RecvFileChunk ==
  /\ ReceiverGets("file-chunk")
  /\ s2r' = Tail(s2r)
  /\ OnFileChunk(Head(s2r), r2s)
  /\ UNCHANGED <<senderVars, connState, corruptions, peerVars, aside>>

RecvTransferError ==
  /\ ReceiverGets("transfer-error")
  /\ s2r' = Tail(s2r)
  /\ OnTransferError(Head(s2r), r2s)
  /\ UNCHANGED <<senderVars, connState, corruptions, peerVars, aside>>

VerifyFinish(k) ==
  /\ VerifyFinishOn(k, r2s)
  /\ UNCHANGED <<senderVars, connState, s2r, corruptions, peerVars, aside>>

\* request-file messages sent and not lost: each starts one sendFileInChunks.
Requested ==
  nRuns + Cardinality({k \in 1..Len(r2s) : r2s[k].type = "request-file"})

ClickDownload(f) ==
  /\ CanClickDownload(f)
  /\ Requested + 1 <= MaxRuns
  /\ DownloadFiles(<<f>>, r2s)
  /\ UNCHANGED <<senderVars, connState, s2r, corruptions, peerVars, aside>>

ClickDownloadAll ==
  /\ CanClickDownloadAll
  /\ Requested + Len(rFiles) <= MaxRuns
  /\ DownloadFiles(rFiles, r2s)
  /\ UNCHANGED <<senderVars, connState, s2r, corruptions, peerVars, aside>>

Next ==
  \/ Connect
  \/ Close
  \/ \E k \in 1..Len(s2r) : Corrupt(k)
  \/ SenderRequestInfo
  \/ SenderRequestFile
  \/ SenderChunkAck
  \/ SenderFileComplete
  \/ SenderFileError
  \/ \E r \in Runs : HashDone(r)
  \/ \E r \in Runs : ChunkRead(r)
  \/ \E r \in Runs : PollAck(r)
  \/ \E r \in Runs : AckTimeout(r)
  \/ \E r \in Runs : DelayDone(r)
  \/ \E r \in Runs : FinalTimeout(r)
  \/ RecvFileList
  \/ RecvFileStart
  \/ RecvFileChunk
  \/ RecvTransferError
  \/ \E k \in 1..Len(verifying) : VerifyFinish(k)
  \/ \E f \in FileNames : ClickDownload(f)
  \/ ClickDownloadAll

Spec == Init /\ [][Next]_vars

\* The steps of one sendFileInChunks call that the event loop takes on its own:
\* a settled promise is resumed and a due timer fires.  No fairness is assumed
\* of the peer or of the transport.
RunFairness(r) ==
  /\ WF_vars(HashDone(r))
  /\ WF_vars(ChunkRead(r))
  /\ WF_vars(PollAck(r))
  /\ WF_vars(AckTimeout(r))
  /\ WF_vars(DelayDone(r))
  /\ WF_vars(FinalTimeout(r))

SpecFair == Init /\ [][Next]_vars /\ \A r \in Runs : RunFairness(r)

(***************************************************************************)
(* SpecRecv: the receiver alone. Its peer may deliver any file-start and   *)
(* any file-chunk of the sets below, in any order, and reads every message *)
(* the receiver sends at once: r2s holds what the last step sent.          *)
(***************************************************************************)
Flip(bytes) == IF bytes = <<>> THEN <<1>> ELSE [bytes EXCEPT ![1] = 1 - @]

Payload(kind, bytes) ==
  [kind |-> kind, bytes |-> bytes, byteOffset |-> 0, byteLength |-> Len(bytes)]

\* Payloads of other contents a peer may put in a chunk whose bytes should be b.
PeerContents(b) == {Uint8(b), Uint8(Flip(b)), Uint8(b \o <<0>>), Uint8(<<>>)}

\* Payloads of other types a peer may put in a chunk whose bytes should be b.
PeerKinds(b) ==
  {Payload(k, b) : k \in {"ArrayBuffer", "Buffer", "Array", "TypedArray",
                          "DataView", "BadLength", "null", "string"}}
  \cup {[kind |-> "Uint8Array", bytes |-> <<0>> \o b, byteOffset |-> 1,
         byteLength |-> Len(b)]}

\* The file the peer's varied messages are about: the one being downloaded.
PeerFile == IF handler.fileName = "none" THEN "a" ELSE handler.fileName

\* The file-start messages a peer may deliver: the sender's for every file, and
\* for the file being downloaded also some that announce something else.
PeerStarts ==
  {FileStartMsg(f) : f \in FileNames}
  \cup {[FileStartMsg(PeerFile) EXCEPT !.fileSize = @ + 1],
        [FileStartMsg(PeerFile) EXCEPT !.fileHash = Digest(Flip(files[PeerFile]))],
        [FileStartMsg(PeerFile) EXCEPT !.totalChunks = @ + 1]}

PeerMaxIndex == TotalChunksOf(MaxFileSize) - 1

\* The file-chunk messages a peer may deliver: the first chunk of every file,
\* and for the file being downloaded every index with every content and flag,
\* and its first chunk as every type of payload.
PeerChunks ==
  {ChunkMsg(f, 0) : f \in FileNames}
  \cup UNION {{[ChunkMsg(PeerFile, i) EXCEPT !.data = d, !.isLast = l] :
                 d \in PeerContents(ChunkBytes(files[PeerFile], i)), l \in BOOLEAN} :
              i \in 0..PeerMaxIndex}
  \cup {[ChunkMsg(PeerFile, 0) EXCEPT !.data = d] :
          d \in PeerKinds(ChunkBytes(files[PeerFile], 0))}

\* The peer's bookkeeping: it stays honest while it delivers, for the one
\* download in progress, the sender's file-start first and then the sender's
\* file-chunk messages, each index once, in any order.
PeerTrack(m) ==
  LET f == handler.fileName
      startOk == /\ f # "none" /\ ~peerStarted /\ m = FileStartMsg(f)
      chunkOk == /\ f # "none" /\ peerStarted
                 /\ \E i \in 0..(TotalChunksOf(Len(files[f])) - 1) :
                      i \notin peerDelivered /\ m = ChunkMsg(f, i)
      honest  == peerHonest /\ (startOk \/ chunkOk)
  IN /\ peerMsgs' = peerMsgs + 1
     /\ peerLast' = m
     /\ peerHonest' = honest
     /\ peerStarted' = (honest /\ (peerStarted \/ m.type = "file-start"))
     /\ peerDelivered' = IF honest /\ m.type = "file-chunk"
                         THEN peerDelivered \cup {m.chunkIndex}
                         ELSE IF honest THEN peerDelivered ELSE {}

\* The receiver is connected and has received the file list.
InitRecv ==
  /\ files \in FileTables
  /\ password = ""
  /\ connections = {"conn"}
  /\ runs = [r \in Runs |-> IdleRun]
  /\ nRuns = 0
  /\ completedTransfers = [f \in FileNames |-> FALSE]
  /\ transferErrors = [f \in FileNames |-> "none"]
  /\ connState = "open"
  /\ s2r = <<>>
  /\ r2s = <<>>
  /\ corruptions = 0
  /\ connection = TRUE
  /\ authError = ""
  /\ passwordRequired = FALSE
  /\ rFiles = FileListMsg.files
  /\ isDownloading = FALSE
  /\ downloadProgress = {}
  /\ downloadErrors = [f \in FileNames |-> "none"]
  /\ verifiedFiles = {}
  /\ downloadedFiles = [f \in FileNames |-> NoBlob]
  /\ handler = NoHandler
  /\ verifying = <<>>
  /\ InitPeer

PeerFileStart ==
  \E m \in PeerStarts :
    /\ peerMsgs < MaxPeerMsgs
    /\ OnFileStart(m, <<>>)
    /\ PeerTrack(m)
    /\ UNCHANGED <<senderVars, connState, s2r, corruptions, aside>>

PeerFileChunk ==
  \E m \in PeerChunks :
    /\ peerMsgs < MaxPeerMsgs
    /\ OnFileChunk(m, <<>>)
    /\ PeerTrack(m)
    /\ UNCHANGED <<senderVars, connState, s2r, corruptions, aside>>

PeerVerifyFinish ==
  \E k \in 1..Len(verifying) :
    /\ VerifyFinishOn(k, <<>>)
    /\ UNCHANGED <<senderVars, connState, s2r, corruptions, peerVars, aside>>

\* A click on Download: only the first download of a page is tracked as honest.
PeerClickDownload ==
  \E f \in FileNames :
    /\ CanClickDownload(f)
    /\ DownloadFiles(<<f>>, <<>>)
    /\ peerHonest' = (downloadProgress = {})
    /\ peerStarted' = FALSE
    /\ peerDelivered' = {}
    /\ UNCHANGED <<senderVars, connState, s2r, corruptions, peerMsgs, peerLast,
                 aside>>

NextRecv ==
  \/ PeerFileStart
  \/ PeerFileChunk
  \/ PeerVerifyFinish
  \/ PeerClickDownload

SpecRecv == InitRecv /\ [][NextRecv]_vars

(***************************************************************************)
(* SpecAuth: sender and receiver of a share that may have a password, up   *)
(* to the request of a file.                                               *)
(***************************************************************************)
\* The passwords a share may be configured with, and those a user may type.
Passwords == {"", "pw"}
Typed == {"pw", "bad"}

InitAuth == password \in Passwords /\ InitState

\* The effect that follows conn.on('close') at the receiver: connectionStatus
\* is 'idle' again and connectToPeer opens a new connection to the same share.
Reconnect ==
  /\ connState = "closed"
  /\ connState' = "open"
  /\ connections' = connections \cup {"conn"}
  /\ connection' = TRUE
  /\ authError' = ""
  /\ r2s' = <<[type |-> "request-info"]>>
  /\ UNCHANGED <<files, password, runs, nRuns, completedTransfers, transferErrors,
                 s2r, corruptions, passwordRequired, rFiles, isDownloading,
                 downloadProgress, downloadErrors, verifiedFiles, downloadedFiles,
                 handler, verifying, peerVars, aside>>

SubmitPassword(p) ==
  /\ CanSubmitPassword
  /\ attempts < MaxAttempts
  /\ attempts' = attempts + 1
  /\ submitPassword(p, r2s)
  /\ UNCHANGED <<senderVars, connState, s2r, corruptions, peerVars, peersVars,
                 sessionVars, laterVars>>

RecvAuthFailed ==
  /\ ReceiverGets("auth-failed")
  /\ s2r' = Tail(s2r)
  /\ OnAuthFailed(r2s)
  /\ UNCHANGED <<senderVars, connState, corruptions, peerVars, aside>>

RecvAuthSuccess ==
  /\ ReceiverGets("auth-success")
  /\ s2r' = Tail(s2r)
  /\ OnAuthSuccess(r2s)
  /\ UNCHANGED <<senderVars, connState, corruptions, peerVars, aside>>

NextAuth ==
  \/ Connect
  \/ Close
  \/ Reconnect
  \/ SenderRequestInfo
  \/ SenderPassword
  \/ RecvFileList
  \/ RecvAuthFailed
  \/ RecvAuthSuccess
  \/ \E p \in Typed : SubmitPassword(p)
  \/ \E f \in FileNames : ClickDownload(f)
  \/ ClickDownloadAll

SpecAuth == InitAuth /\ [][NextAuth]_vars

(***************************************************************************)
(* SpecGate: the sender of a share that may have a password, and a peer    *)
(* that may send request-info, password and request-file in any order.     *)
(***************************************************************************)
GateMsgs ==
  {[type |-> "request-info"]}
  \cup {PasswordMsg(p) : p \in Typed \cup {""}}
  \cup {RequestFileMsg(f) : f \in FileNames}

\* The files are the largest of FileTables.
InitGate ==
  /\ InitAuth
  /\ Len(files["a"]) = MaxFileSize

GatePeerSends ==
  \E m \in GateMsgs :
    /\ connOpen
    /\ peerMsgs < MaxPeerMsgs
    /\ peerMsgs' = peerMsgs + 1
    /\ peerLast' = m
    /\ r2s' = Append(r2s, m)
    /\ UNCHANGED <<senderVars, connState, s2r, corruptions, recvState,
                   peerStarted, peerHonest, peerDelivered, aside>>

NextGate ==
  \/ Connect
  \/ GatePeerSends
  \/ SenderRequestInfo
  \/ SenderPassword
  \/ SenderRequestFile
  \/ \E r \in Runs : HashDone(r)
  \/ \E r \in Runs : ChunkRead(r)
  \/ \E r \in Runs : AckTimeout(r)

SpecGate == InitGate /\ [][NextGate]_vars

(***************************************************************************)
(* SpecPeers: the sender serving two peers, each over its own              *)
(* DataConnection, with one sendFileInChunks call per connection.  Each    *)
(* peer may send request-file, chunk-ack and file-complete for file "b" in *)
(* any order.  completedTransfers, transferErrors and connections are the  *)
(* sender's state, shared by the connections; pRuns[c].sent is what the    *)
(* call has passed to the send of connection c.                            *)
(***************************************************************************)
Hears_all(c, d) == TRUE

\* A listener registered with conn.on('data', ...) on connection c is called
\* with the data arriving on connection d.
Hears(c, d) == c = d

PeersMsgs ==
  {RequestFileMsg("b"), ChunkAckMsg("b", 0), FileCompleteMsg("b", files["b"])}

PeersGets(c, type) ==
  pState[c] = "open" /\ pIn[c] # <<>> /\ Head(pIn[c]).type = type

\* peer.on('connection')
PeersConnect(c) ==
  /\ pState[c] = "idle"
  /\ pState' = [pState EXCEPT ![c] = "open"]
  /\ connections' = connections \cup {c}
  /\ UNCHANGED <<files, password, runs, nRuns, completedTransfers, transferErrors,
                 netVars, recvState, peerVars, authVars, sessionVars, laterVars, pIn, pRuns, pBudget>>

\* conn.on('close') / conn.on('error'); what the peer had sent is lost.
PeersClose(c) ==
  /\ pState[c] = "open"
  /\ pState' = [pState EXCEPT ![c] = "closed"]
  /\ connections' = connections \ {c}
  /\ pIn' = [pIn EXCEPT ![c] = <<>>]
  /\ UNCHANGED <<files, password, runs, nRuns, completedTransfers, transferErrors,
                 netVars, recvState, peerVars, authVars, sessionVars, laterVars, pRuns, pBudget>>

PeersSend(c, m) ==
  /\ pState[c] = "open"
  /\ pBudget[c] < MaxConnMsgs
  /\ pBudget' = [pBudget EXCEPT ![c] = @ + 1]
  /\ pIn' = [pIn EXCEPT ![c] = Append(@, m)]
  /\ UNCHANGED <<senderVars, netVars, recvState, peerVars, authVars, sessionVars, laterVars, pState, pRuns>>

\* request-file on connection c; the connection serves one call at a time here.
PeersRequestFile(c) ==
  /\ PeersGets(c, "request-file")
  /\ pRuns[c].pc = "idle"
  /\ pIn' = [pIn EXCEPT ![c] = Tail(@)]
  /\ pRuns' = [pRuns EXCEPT ![c] = NewRun(Head(pIn[c]).fileName)]
  /\ UNCHANGED <<senderVars, netVars, recvState, peerVars, authVars, sessionVars, laterVars, pState, pBudget>>

\* chunk-ack on connection c: the handler of startSharing ignores it; the
\* listeners registered on the connection see it.
PeersChunkAck(c) ==
  /\ PeersGets(c, "chunk-ack")
  /\ pIn' = [pIn EXCEPT ![c] = Tail(@)]
  /\ pRuns' = [d \in Conns |->
                 IF Hears(d, c) THEN handleChunkAck(pRuns[d], Head(pIn[c]))
                 ELSE pRuns[d]]
  /\ UNCHANGED <<senderVars, netVars, recvState, peerVars, authVars, sessionVars, laterVars, pState, pBudget>>

\* file-complete on connection c
PeersFileComplete(c) ==
  /\ PeersGets(c, "file-complete")
  /\ pIn' = [pIn EXCEPT ![c] = Tail(@)]
  /\ pRuns' = [d \in Conns |->
                 IF Hears(d, c)
                 THEN checkComplete(handleChunkAck(pRuns[d], Head(pIn[c])), Head(pIn[c]))
                 ELSE pRuns[d]]
  /\ completedTransfers' = [completedTransfers EXCEPT ![Head(pIn[c]).fileName] = TRUE]
  /\ UNCHANGED <<files, password, connections, runs, nRuns, transferErrors,
                 netVars, recvState, peerVars, authVars, sessionVars, laterVars, pState, pBudget>>

\* A step of the call on connection c to newRun, passing out to conn.send.
PeersCommit(c, newRun, out) ==
  LET failedNow == newRun.pc = "failed"
      f         == newRun.file
      msgs      == out \o (IF failedNow THEN FailureMsgs(newRun) ELSE <<>>)
  IN /\ pRuns' = [pRuns EXCEPT ![c] = [newRun EXCEPT !.sent = @ \o msgs]]
     /\ transferErrors' =
          IF failedNow THEN [transferErrors EXCEPT ![f] = newRun.error]
          ELSE transferErrors
     /\ UNCHANGED <<files, password, connections, runs, nRuns, completedTransfers,
                    netVars, recvState, peerVars, authVars, sessionVars, laterVars, pState, pIn, pBudget>>

PeersHashDone(c) ==
  /\ pRuns[c].pc = "hash"
  /\ PeersCommit(c, LoopTopOn(pState[c] = "open",
                              [pRuns[c] EXCEPT !.ackListener = TRUE], 0),
                 <<FileStartMsg(pRuns[c].file)>>)

PeersChunkRead(c) ==
  /\ pRuns[c].pc = "read"
  /\ PeersCommit(c, [pRuns[c] EXCEPT !.pendingChunks = @ \cup {pRuns[c].i},
                                     !.pc = "waitack"],
                 <<ChunkMsg(pRuns[c].file, pRuns[c].i)>>)

PeersPollAck(c) ==
  /\ pRuns[c].pc = "waitack"
  /\ AckArrived(pRuns[c])
  /\ PeersCommit(c, [pRuns[c] EXCEPT !.pc = "delay"], <<>>)

PeersAckTimeout(c) ==
  /\ pRuns[c].pc = "waitack"
  /\ pRuns[c].i \in pRuns[c].pendingChunks
  /\ PeersCommit(c, FailedRun(pRuns[c], "ChunkTimeout"), <<>>)

PeersDelayDone(c) ==
  /\ pRuns[c].pc = "delay"
  /\ PeersCommit(c, LoopTopOn(pState[c] = "open", pRuns[c], pRuns[c].i + 1), <<>>)

PeersFinalTimeout(c) ==
  /\ pRuns[c].pc = "final"
  /\ PeersCommit(c, FailedRun(pRuns[c], "FinalAckTimeout"), <<>>)

InitPeers == Init /\ Len(files["a"]) = MaxFileSize

NextPeers ==
  \E c \in Conns :
    \/ PeersConnect(c)
    \/ PeersClose(c)
    \/ \E m \in PeersMsgs : PeersSend(c, m)
    \/ PeersRequestFile(c)
    \/ PeersChunkAck(c)
    \/ PeersFileComplete(c)
    \/ PeersHashDone(c)
    \/ PeersChunkRead(c)
    \/ PeersPollAck(c)
    \/ PeersAckTimeout(c)
    \/ PeersDelayDone(c)
    \/ PeersFinalTimeout(c)

SpecPeers == InitPeers /\ [][NextPeers]_vars

(***************************************************************************)
(* SpecSession: TransferSessionManager over LargeFileStorage, for one      *)
(* fileId.  Calls of resumeTransfer do not overlap; pauseTransfer and      *)
(* cancelTransfer may be called at any await of the running call.  A       *)
(* request to the object stores takes effect when it is issued (IndexedDB  *)
(* runs the transactions of a store in the order of their creation); its   *)
(* promise resolves in a later step.                                       *)
(*   loop.pc: "none"         resumeTransfer not called yet                 *)
(*            "getSession"   awaiting getSession at the head of the call   *)
(*            "tcGetSession" transferChunk awaiting getSession             *)
(*            "tcGetChunk"   transferChunk awaiting getChunk               *)
(*            "waitack"      chunk sent, awaiting the ack promise          *)
(*            "saving"       awaiting saveSession after the chunk          *)
(*            "yield"        awaiting the 1 ms timer                       *)
(*            "saveFinal"    awaiting the final saveSession                *)
(*            "exited"       the call has returned or thrown               *)
(***************************************************************************)
otherVars == <<senderVars, netVars, recvState, peerVars, authVars, peersVars,
               laterVars>>

RemainingChunks_all(session) == [k \in 1..session.totalChunks |-> k - 1]

RemainingChunks_none(session) == <<>>

\* remainingChunks: the indices below totalChunks not in completedChunks, ascending.
RemainingChunks(session) ==
  SelectSeq([k \in 1..session.totalChunks |-> k - 1],
            LAMBDA i : \A j \in 1..Len(session.completedChunks) :
                         session.completedChunks[j] # i)

SignalAborted_never(c) == FALSE

SessionAfterAck_noPush(session, chunkIndex) == session

SessionAfterAck_reset(session, chunkIndex) ==
  [session EXCEPT !.completedChunks = <<chunkIndex>>]

\* session.completedChunks.push(chunkIndex)
SessionAfterAck(session, chunkIndex) ==
  [session EXCEPT !.completedChunks = Append(@, chunkIndex)]

\* transferredChunks++ and the new progress.
AfterChunk(ts) ==
  [ts EXCEPT !.transferredChunks = @ + 1,
             !.progress = ProgressOf(ts.transferredChunks + 1, TotalChunks)]

\* controller.signal.aborted
SignalAborted(c) == c \in abortedCtls

\* The chunk index of the current iteration.
CurrentChunk(l) == l.remaining[l.pos]

LoopRunning == loop.pc \notin {"none", "exited"}

\* catch and finally of resumeTransfer, entered from loop state l.
Catch(l, ts, err) ==
  /\ transferState' = [ts EXCEPT !.status = "error", !.error = err]
  /\ onErrorCalls' = Append(onErrorCalls, err)
  /\ transferControllers' = 0
  /\ loop' = [l EXCEPT !.pc = "exited"]
  /\ UNCHANGED <<sessionStore, onCompleteCalls>>

\* The head of the for-of loop at position l.pos, and what follows the loop.
EnterIteration(l, ts, ctl) ==
  IF l.pos > Len(l.remaining)
  THEN /\ transferState' = [ts EXCEPT !.status = "complete", !.progress = 100]
       /\ loop' = [l EXCEPT !.session.isComplete = TRUE, !.pc = "saveFinal"]
       /\ sessionStore' = [l.session EXCEPT !.isComplete = TRUE]
       /\ transferControllers' = ctl
       /\ UNCHANGED <<onErrorCalls, onCompleteCalls>>
  ELSE IF SignalAborted(l.controller)
  THEN Catch(l, ts, "Transfer aborted")
  ELSE /\ loop' = [l EXCEPT !.pc = "tcGetSession", !.got = sessionStore]
       /\ transferState' = ts
       /\ transferControllers' = ctl
       /\ UNCHANGED <<sessionStore, onErrorCalls, onCompleteCalls>>

\* resumeTransfer(options) up to its first await.
ResumeCall ==
  /\ ~LoopRunning
  /\ nResumes < MaxResumes
  /\ nResumes' = nResumes + 1
  /\ loop' = [NoLoop EXCEPT !.pc = "getSession", !.got = sessionStore]
  /\ UNCHANGED <<sessionStore, chunkStore, transferState, activeSessions,
                 transferControllers, abortedCtls, sendLog, onErrorCalls,
                 onCompleteCalls, cancelPc, ackedChunks, otherVars>>

\* getSession resolves: the two checks, the new controller, the remaining
\* chunks and the first iteration.
ResumeGotSession ==
  /\ loop.pc = "getSession"
  /\ IF ~loop.got.exists \/ ~activeSessions
     THEN /\ loop' = [loop EXCEPT !.pc = "exited"]
          /\ UNCHANGED <<sessionStore, transferState, transferControllers,
                         onErrorCalls, onCompleteCalls>>
     ELSE EnterIteration([loop EXCEPT !.controller = nResumes,
                                      !.session = loop.got,
                                      !.remaining = RemainingChunks(loop.got),
                                      !.pos = 1],
                         [transferState EXCEPT !.status = "transferring"],
                         nResumes)
  /\ UNCHANGED <<chunkStore, activeSessions, abortedCtls, nResumes, sendLog,
                 cancelPc, ackedChunks, otherVars>>

\* transferChunk: getSession resolves.
TcGotSession ==
  /\ loop.pc = "tcGetSession"
  /\ IF ~loop.got.exists
     THEN Catch(loop, transferState, "Session not found")
     ELSE /\ loop' = [loop EXCEPT !.pc = "tcGetChunk",
                                  !.gotChunk = CurrentChunk(loop) \in chunkStore]
          /\ UNCHANGED <<sessionStore, transferState, transferControllers,
                         onErrorCalls, onCompleteCalls>>
  /\ UNCHANGED <<chunkStore, activeSessions, abortedCtls, nResumes, sendLog,
                 cancelPc, ackedChunks, otherVars>>

\* transferChunk: getChunk resolves; the chunk is sent and the ack awaited.
TcGotChunk ==
  /\ loop.pc = "tcGetChunk"
  /\ IF ~loop.gotChunk
     THEN /\ Catch(loop, transferState, "Chunk data not available")
          /\ UNCHANGED sendLog
     ELSE /\ sendLog' = Append(sendLog, CurrentChunk(loop))
          /\ loop' = [loop EXCEPT !.pc = "waitack"]
          /\ UNCHANGED <<sessionStore, transferState, transferControllers,
                         onErrorCalls, onCompleteCalls>>
  /\ UNCHANGED <<chunkStore, activeSessions, abortedCtls, nResumes, cancelPc,
                 ackedChunks, otherVars>>

\* handleAck sees the ack of the chunk with success: the promise resolves, the
\* progress is updated, the index pushed and saveSession called.
AckSuccess ==
  /\ loop.pc = "waitack"
  /\ LET session == SessionAfterAck(loop.session, CurrentChunk(loop))
     IN /\ loop' = [loop EXCEPT !.session = session, !.pc = "saving"]
        /\ sessionStore' = session
  /\ transferState' = AfterChunk(transferState)
  /\ ackedChunks' = ackedChunks \cup {CurrentChunk(loop)}
  /\ UNCHANGED <<chunkStore, activeSessions, transferControllers, abortedCtls,
                 nResumes, sendLog, onErrorCalls, onCompleteCalls, cancelPc,
                 otherVars>>

\* handleAck sees the ack of the chunk with success = false: reject.
AckFailure ==
  /\ loop.pc = "waitack"
  /\ Catch(loop, transferState, "Chunk failed")
  /\ UNCHANGED <<chunkStore, activeSessions, abortedCtls, nResumes, sendLog,
                 cancelPc, ackedChunks, otherVars>>

\* The 30 s timer of transferChunk fires: reject.
ChunkSendTimeout ==
  /\ loop.pc = "waitack"
  /\ Catch(loop, transferState, "Chunk send timeout")
  /\ UNCHANGED <<chunkStore, activeSessions, abortedCtls, nResumes, sendLog,
                 cancelPc, ackedChunks, otherVars>>

\* saveSession resolves: statistics, onProgress, then the 1 ms timer.
SaveDone ==
  /\ loop.pc = "saving"
  /\ loop' = [loop EXCEPT !.pc = "yield"]
  /\ UNCHANGED <<sessionStore, chunkStore, transferState, activeSessions,
                 transferControllers, abortedCtls, nResumes, sendLog,
                 onErrorCalls, onCompleteCalls, cancelPc, ackedChunks, otherVars>>

\* The 1 ms timer fires: the next iteration.
YieldDone ==
  /\ loop.pc = "yield"
  /\ EnterIteration([loop EXCEPT !.pos = @ + 1], transferState, transferControllers)
  /\ UNCHANGED <<chunkStore, activeSessions, abortedCtls, nResumes, sendLog,
                 cancelPc, ackedChunks, otherVars>>

\* The final saveSession resolves: onComplete, finally.
SaveFinalDone ==
  /\ loop.pc = "saveFinal"
  /\ loop' = [loop EXCEPT !.pc = "exited"]
  /\ onCompleteCalls' = onCompleteCalls + 1
  /\ transferControllers' = 0
  /\ UNCHANGED <<sessionStore, chunkStore, transferState, activeSessions,
                 abortedCtls, nResumes, sendLog, onErrorCalls, cancelPc,
                 ackedChunks, otherVars>>

\* LargeFileStorage.getAllSessions(), for the one fileId of SpecSession.
GetAllSessions == IF sessionStore.exists THEN <<sessionStore>> ELSE <<>>

\* getResumableTransfers()
GetResumableTransfers ==
  SelectSeq(GetAllSessions,
            LAMBDA session : ~session.isComplete /\ Len(session.completedChunks) > 0)

\* pauseTransfer(fileId)
PauseTransfer ==
  /\ abortedCtls' = IF transferControllers # 0
                    THEN abortedCtls \cup {transferControllers}
                    ELSE abortedCtls
  /\ transferState' = IF activeSessions
                      THEN [transferState EXCEPT !.status = "paused",
                                                 !.canResume = TRUE]
                      ELSE transferState
  /\ UNCHANGED <<sessionStore, chunkStore, activeSessions, transferControllers,
                 loop, nResumes, sendLog, onErrorCalls, onCompleteCalls,
                 cancelPc, ackedChunks, otherVars>>

\* LargeFileStorage.deleteFileData(fileId): one transaction over both stores.
DeleteFileData ==
  /\ chunkStore' = {}
  /\ sessionStore' = NoSession

\* cancelTransfer(fileId, deleteData) up to its await; called once.
CancelTransfer(deleteData) ==
  /\ cancelPc = "none"
  /\ abortedCtls' = IF transferControllers # 0
                    THEN abortedCtls \cup {transferControllers}
                    ELSE abortedCtls
  /\ activeSessions' = FALSE
  /\ transferControllers' = 0
  /\ IF deleteData
     THEN DeleteFileData /\ cancelPc' = "deleting"
     ELSE UNCHANGED <<chunkStore, sessionStore>> /\ cancelPc' = "kept"
  /\ UNCHANGED <<transferState, loop, nResumes, sendLog, onErrorCalls,
                 onCompleteCalls, ackedChunks, otherVars>>

\* deleteFileData resolves and cancelTransfer(fileId, true) returns.
CancelReturn ==
  /\ cancelPc = "deleting"
  /\ cancelPc' = "returned"
  /\ UNCHANGED <<sessionStore, chunkStore, transferState, activeSessions,
                 transferControllers, abortedCtls, loop, nResumes, sendLog,
                 onErrorCalls, onCompleteCalls, ackedChunks, otherVars>>

InitSession == Init /\ Len(files["a"]) = MaxFileSize

NextSession ==
  \/ ResumeCall
  \/ ResumeGotSession
  \/ TcGotSession
  \/ TcGotChunk
  \/ AckSuccess
  \/ AckFailure
  \/ ChunkSendTimeout
  \/ SaveDone
  \/ YieldDone
  \/ SaveFinalDone
  \/ PauseTransfer
  \/ \E deleteData \in BOOLEAN : CancelTransfer(deleteData)
  \/ CancelReturn

SpecSession == InitSession /\ [][NextSession]_vars

(***************************************************************************)
(* SpecOverlap: MaxOverlap calls of resumeTransfer for the same fileId,    *)
(* each called once and running at the same time as the others, over the   *)
(* same stores, TransferState and connection.  Call n has controller n.    *)
(* loops[n] is the loop record of SpecSession for call n.                  *)
(***************************************************************************)
Calls == 1..MaxOverlap

ovFrame == <<senderVars, netVars, recvState, peerVars, authVars, peersVars,
             chunkStore, activeSessions, abortedCtls, loop, nResumes, cancelPc,
             ackedChunks, assembleVars, cleanupVars, processVars, moreVars>>

\* catch and finally of call n, entered from loop state l.
OvCatch(n, l, ts, err) ==
  /\ transferState' = [ts EXCEPT !.status = "error", !.error = err]
  /\ onErrorCalls' = Append(onErrorCalls, err)
  /\ transferControllers' = 0
  /\ loops' = [loops EXCEPT ![n] = [l EXCEPT !.pc = "exited"]]
  /\ UNCHANGED <<sessionStore, onCompleteCalls>>

\* The head of the for-of loop of call n, and what follows the loop.
OvEnterIteration(n, l, ts, ctl) ==
  IF l.pos > Len(l.remaining)
  THEN /\ transferState' = [ts EXCEPT !.status = "complete", !.progress = 100]
       /\ loops' = [loops EXCEPT ![n] = [l EXCEPT !.session.isComplete = TRUE,
                                                  !.pc = "saveFinal"]]
       /\ sessionStore' = [l.session EXCEPT !.isComplete = TRUE]
       /\ transferControllers' = ctl
       /\ UNCHANGED <<onErrorCalls, onCompleteCalls>>
  ELSE IF SignalAborted(l.controller)
  THEN OvCatch(n, l, ts, "Transfer aborted")
  ELSE /\ loops' = [loops EXCEPT ![n] = [l EXCEPT !.pc = "tcGetSession",
                                                  !.got = sessionStore]]
       /\ transferState' = ts
       /\ transferControllers' = ctl
       /\ UNCHANGED <<sessionStore, onErrorCalls, onCompleteCalls>>

OvResumeCall(n) ==
  /\ loops[n].pc = "none"
  /\ loops' = [loops EXCEPT ![n] = [NoLoop EXCEPT !.pc = "getSession",
                                                  !.got = sessionStore]]
  /\ UNCHANGED <<sessionStore, transferState, transferControllers, sendLog,
                 onErrorCalls, onCompleteCalls, ovFrame>>

OvGotSession(n) ==
  /\ loops[n].pc = "getSession"
  /\ IF ~loops[n].got.exists \/ ~activeSessions
     THEN /\ loops' = [loops EXCEPT ![n].pc = "exited"]
          /\ UNCHANGED <<sessionStore, transferState, transferControllers,
                         onErrorCalls, onCompleteCalls>>
     ELSE OvEnterIteration(n,
                           [loops[n] EXCEPT !.controller = n,
                                            !.session = loops[n].got,
                                            !.remaining = RemainingChunks(loops[n].got),
                                            !.pos = 1],
                           [transferState EXCEPT !.status = "transferring"],
                           n)
  /\ UNCHANGED <<sendLog, ovFrame>>

OvTcGotSession(n) ==
  /\ loops[n].pc = "tcGetSession"
  /\ IF ~loops[n].got.exists
     THEN OvCatch(n, loops[n], transferState, "Session not found")
     ELSE /\ loops' = [loops EXCEPT ![n].pc = "tcGetChunk",
                                    ![n].gotChunk = CurrentChunk(loops[n]) \in chunkStore]
          /\ UNCHANGED <<sessionStore, transferState, transferControllers,
                         onErrorCalls, onCompleteCalls>>
  /\ UNCHANGED <<sendLog, ovFrame>>

OvTcGotChunk(n) ==
  /\ loops[n].pc = "tcGetChunk"
  /\ IF ~loops[n].gotChunk
     THEN /\ OvCatch(n, loops[n], transferState, "Chunk data not available")
          /\ UNCHANGED sendLog
     ELSE /\ sendLog' = Append(sendLog, CurrentChunk(loops[n]))
          /\ loops' = [loops EXCEPT ![n].pc = "waitack"]
          /\ UNCHANGED <<sessionStore, transferState, transferControllers,
                         onErrorCalls, onCompleteCalls>>
  /\ UNCHANGED ovFrame

\* The handleAck of call n sees the ack of its chunk with success.
OvAckSuccess(n) ==
  /\ loops[n].pc = "waitack"
  /\ LET session == SessionAfterAck(loops[n].session, CurrentChunk(loops[n]))
     IN /\ loops' = [loops EXCEPT ![n].session = session, ![n].pc = "saving"]
        /\ sessionStore' = session
  /\ transferState' = AfterChunk(transferState)
  /\ UNCHANGED <<transferControllers, sendLog, onErrorCalls, onCompleteCalls,
                 ovFrame>>

OvChunkSendTimeout(n) ==
  /\ loops[n].pc = "waitack"
  /\ OvCatch(n, loops[n], transferState, "Chunk send timeout")
  /\ UNCHANGED <<sendLog, ovFrame>>

OvSaveDone(n) ==
  /\ loops[n].pc = "saving"
  /\ loops' = [loops EXCEPT ![n].pc = "yield"]
  /\ UNCHANGED <<sessionStore, transferState, transferControllers, sendLog,
                 onErrorCalls, onCompleteCalls, ovFrame>>

OvYieldDone(n) ==
  /\ loops[n].pc = "yield"
  /\ OvEnterIteration(n, [loops[n] EXCEPT !.pos = @ + 1], transferState,
                      transferControllers)
  /\ UNCHANGED <<sendLog, ovFrame>>

OvSaveFinalDone(n) ==
  /\ loops[n].pc = "saveFinal"
  /\ loops' = [loops EXCEPT ![n].pc = "exited"]
  /\ onCompleteCalls' = onCompleteCalls + 1
  /\ transferControllers' = 0
  /\ UNCHANGED <<sessionStore, transferState, sendLog, onErrorCalls, ovFrame>>

InitOverlap == InitSession

NextOverlap ==
  \E n \in Calls :
    \/ OvResumeCall(n)
    \/ OvGotSession(n)
    \/ OvTcGotSession(n)
    \/ OvTcGotChunk(n)
    \/ OvAckSuccess(n)
    \/ OvChunkSendTimeout(n)
    \/ OvSaveDone(n)
    \/ OvYieldDone(n)
    \/ OvSaveFinalDone(n)

SpecOverlap == InitOverlap /\ [][NextOverlap]_vars

(***************************************************************************)
(* SpecRepause: the calls of SpecOverlap with pauseTransfer, where         *)
(* resumeTransfer is called again only when every earlier call has         *)
(* returned or has had its controller aborted by pauseTransfer: the        *)
(* earlier loop may still be waiting for its chunk in flight.              *)
(***************************************************************************)
\* Call n has created its controller and has not returned.
HasController(n) ==
  loops[n].pc \in {"tcGetSession", "tcGetChunk", "waitack", "saving", "yield",
                   "saveFinal"}

\* Call n is a running loop that no pauseTransfer has aborted.
LiveLoop(n) == HasController(n) /\ ~SignalAborted(loops[n].controller)

\* No call is running unpaused (a call awaiting its first getSession counts
\* as running).
NoneUnpaused ==
  \A m \in Calls :
    loops[m].pc \in {"none", "exited"} \/ (HasController(m) /\ ~LiveLoop(m))

\* resumeTransfer called while no earlier call runs unpaused.
ResumeWhenPaused(n) ==
  /\ NoneUnpaused
  /\ OvResumeCall(n)

InitRepause == InitSession

NextRepause ==
  \/ \E n \in Calls :
       \/ ResumeWhenPaused(n)
       \/ OvGotSession(n)
       \/ OvTcGotSession(n)
       \/ OvTcGotChunk(n)
       \/ OvAckSuccess(n)
       \/ OvChunkSendTimeout(n)
       \/ OvSaveDone(n)
       \/ OvYieldDone(n)
       \/ OvSaveFinalDone(n)
  \/ PauseTransfer

SpecRepause == InitRepause /\ [][NextRepause]_vars

(***************************************************************************)
(* SpecAssemble: one call of LargeFileStorage.assembleFile(fileId) at any  *)
(* moment of a transfer of SpecSession.  A stored chunk is represented by  *)
(* its index; the blob is the sequence of the chunks it is made of.        *)
(*   assembly.pc: "none", "getAllChunks" (awaiting), "getSession"          *)
(*                (awaiting), "done" (returned or thrown: result)          *)
(***************************************************************************)
RECURSIVE SortedIndices(_)
\* The chunk records of a set of indices, sorted by chunkIndex.
SortedIndices(set) ==
  IF set = {} THEN <<>>
  ELSE LET least == CHOOSE i \in set : \A j \in set : i <= j
       IN <<least>> \o SortedIndices(set \ {least})

\* getAllChunks(fileId), issued now.
GetAllChunks == SortedIndices(chunkStore)

\* The rest of assembleFile once chunks and session are read.
AssembleResult(chunks, session) ==
  IF ~session.exists THEN [result |-> "Session not found", blob |-> <<>>]
  ELSE IF Len(chunks) # session.totalChunks
  THEN [result |-> "Missing chunks", blob |-> <<>>]
  ELSE [result |-> "ok", blob |-> chunks]

assembleFrame == <<senderVars, netVars, recvState, peerVars, authVars, peersVars,
                   sessionVars, overlapVars, cleanupVars, processVars, moreVars>>

AssembleCall ==
  /\ assembly.pc = "none"
  /\ assembly' = [assembly EXCEPT !.pc = "getAllChunks", !.chunks = GetAllChunks]
  /\ UNCHANGED assembleFrame

AssembleGotChunks ==
  /\ assembly.pc = "getAllChunks"
  /\ assembly' = [assembly EXCEPT !.pc = "getSession", !.session = sessionStore]
  /\ UNCHANGED assembleFrame

AssembleGotSession ==
  /\ assembly.pc = "getSession"
  /\ LET r == AssembleResult(assembly.chunks, assembly.session)
     IN assembly' = [assembly EXCEPT !.pc = "done", !.result = r.result,
                                     !.blob = r.blob]
  /\ UNCHANGED assembleFrame

InitAssemble == InitSession

NextAssemble ==
  \/ NextSession
  \/ AssembleCall
  \/ AssembleGotChunks
  \/ AssembleGotSession

SpecAssemble == InitAssemble /\ [][NextAssemble]_vars

(***************************************************************************)
(* SpecCleanup: the object stores and activeSessions hold several          *)
(* fileIds.  Sessions, chunks and TransferStates are written while time    *)
(* passes; then cleanupOldTransfers(maxAgeHours) is called once and runs   *)
(* with no other writer.  A millisecond of the model is 1/MsPerHour hour.  *)
(*   cleanup.pc: "none", "getAllSessions" (awaiting), "loop" (at the head  *)
(*               of the for loop of cleanupOldSessions), "deleting"        *)
(*               (awaiting deleteFileData), "done"                         *)
(*   cleanup.sessionsBefore, chunksBefore: the stores at the call          *)
(***************************************************************************)
MaxAgeChoices == 0..MaxAgeHours

\* The chunk indices a fileId may have in the chunks store.
StoredIndices == {0}

\* Date.now() - (maxAgeHours * 60 * 60 * 1000)
CutoffTime(now, maxAgeHours) == now - (maxAgeHours * MsPerHour)

\* The condition of cleanupOldSessions under which a session is removed,
\* ignoring whether the session is complete.
Expired_anyOld(session, cutoffTime) ==
  session.timestamp < cutoffTime

\* The condition of cleanupOldSessions under which a session is removed.
Expired(session, cutoffTime) ==
  session.timestamp < cutoffTime /\ ~session.isComplete

\* The condition of cleanupOldTransfers under which a TransferState is dropped.
Stale(state, cutoffTime) ==
  state.lastActivity < cutoffTime /\ state.status # "transferring"

RECURSIVE AllRecords(_, _)
\* store.getAll(): the records of db from position i of the key order on.
AllRecords(db, i) ==
  IF i > Len(FileOrder) THEN <<>>
  ELSE (IF db[FileOrder[i]].exists
        THEN <<[fileId |-> FileOrder[i], timestamp |-> db[FileOrder[i]].timestamp,
                isComplete |-> db[FileOrder[i]].isComplete]>>
        ELSE <<>>) \o AllRecords(db, i + 1)

cleanupFrame == <<senderVars, netVars, recvState, peerVars, authVars, peersVars,
                  sessionVars, overlapVars, assembleVars, processVars, moreVars>>

\* Time passes.
Tick ==
  /\ clock < MaxClock
  /\ clock' = clock + 1
  /\ UNCHANGED <<sessionsDb, chunksDb, activeStates, cleanup, cleanupFrame>>

\* saveSession of a record created now (initializeSession, processLargeFile).
SaveSessionOf(fileId, isComplete) ==
  /\ cleanup.pc = "none"
  /\ sessionsDb' = [sessionsDb EXCEPT
                      ![fileId] = [exists |-> TRUE, timestamp |-> clock,
                                   isComplete |-> isComplete]]
  /\ UNCHANGED <<clock, chunksDb, activeStates, cleanup, cleanupFrame>>

\* storeChunk
StoreChunkOf(fileId, chunkIndex) ==
  /\ cleanup.pc = "none"
  /\ chunksDb' = [chunksDb EXCEPT ![fileId] = @ \cup {chunkIndex}]
  /\ UNCHANGED <<clock, sessionsDb, activeStates, cleanup, cleanupFrame>>

\* The session manager sets the TransferState of fileId, active now.
SetTransferState(fileId, status) ==
  /\ cleanup.pc = "none"
  /\ activeStates' = [activeStates EXCEPT
                        ![fileId] = [present |-> TRUE, status |-> status,
                                     lastActivity |-> clock]]
  /\ UNCHANGED <<clock, sessionsDb, chunksDb, cleanup, cleanupFrame>>

\* cleanupOldTransfers(maxAgeHours) calls cleanupOldSessions(maxAgeHours),
\* which computes cutoffTime and issues getAllSessions.
CleanupCall(maxAgeHours) ==
  /\ cleanup.pc = "none"
  /\ cleanup' = [pc |-> "getAllSessions", maxAgeHours |-> maxAgeHours,
                 cutoffTime |-> CutoffTime(clock, maxAgeHours),
                 sessions |-> AllRecords(sessionsDb, 1),
                 sessionsBefore |-> sessionsDb, chunksBefore |-> chunksDb]
  /\ UNCHANGED <<clock, sessionsDb, chunksDb, activeStates, cleanupFrame>>

\* getAllSessions resolves.
CleanupGotSessions ==
  /\ cleanup.pc = "getAllSessions"
  /\ cleanup' = [cleanup EXCEPT !.pc = "loop"]
  /\ UNCHANGED <<clock, sessionsDb, chunksDb, activeStates, cleanupFrame>>

\* One iteration of the for loop: deleteFileData is issued for a session
\* that meets the condition; another session is passed over.
CleanupIteration ==
  /\ cleanup.pc = "loop"
  /\ cleanup.sessions # <<>>
  /\ LET session == Head(cleanup.sessions)
     IN IF Expired(session, cleanup.cutoffTime)
        THEN /\ sessionsDb' = [sessionsDb EXCEPT ![session.fileId] = NoRecord]
             /\ chunksDb' = [chunksDb EXCEPT ![session.fileId] = {}]
             /\ cleanup' = [cleanup EXCEPT !.pc = "deleting"]
        ELSE /\ cleanup' = [cleanup EXCEPT !.sessions = Tail(@)]
             /\ UNCHANGED <<sessionsDb, chunksDb>>
  /\ UNCHANGED <<clock, activeStates, cleanupFrame>>

\* deleteFileData resolves.
CleanupDeleted ==
  /\ cleanup.pc = "deleting"
  /\ cleanup' = [cleanup EXCEPT !.pc = "loop", !.sessions = Tail(@)]
  /\ UNCHANGED <<clock, sessionsDb, chunksDb, activeStates, cleanupFrame>>

\* cleanupOldSessions has returned: cleanupOldTransfers computes its own
\* cutoffTime and drops the stale entries of activeSessions.
CleanupMemory ==
  /\ cleanup.pc = "loop"
  /\ cleanup.sessions = <<>>
  /\ LET cutoffTime == CutoffTime(clock, cleanup.maxAgeHours)
     IN activeStates' =
          [f \in FileIds |->
             IF activeStates[f].present /\ Stale(activeStates[f], cutoffTime)
             THEN NoState ELSE activeStates[f]]
  /\ cleanup' = [cleanup EXCEPT !.pc = "done"]
  /\ UNCHANGED <<clock, sessionsDb, chunksDb, cleanupFrame>>

InitCleanup == Init /\ Len(files["a"]) = MaxFileSize

NextCleanup ==
  \/ Tick
  \/ \E f \in FileIds, isComplete \in BOOLEAN : SaveSessionOf(f, isComplete)
  \/ \E f \in FileIds, i \in StoredIndices : StoreChunkOf(f, i)
  \/ \E f \in FileIds, status \in Statuses : SetTransferState(f, status)
  \/ \E maxAgeHours \in MaxAgeChoices : CleanupCall(maxAgeHours)
  \/ CleanupGotSessions
  \/ CleanupIteration
  \/ CleanupDeleted
  \/ CleanupMemory

SpecCleanup == InitCleanup /\ [][NextCleanup]_vars

(***************************************************************************)
(* SpecProcess: one call of processFileStream(file, options), either by    *)
(* processLargeFile (no signal; onChunkProcessed stores the chunk under    *)
(* the run's fileId; a session is saved after the stream returned) or by   *)
(* a caller that passes an AbortSignal and an asynchronous callback.       *)
(*   proc.pc: "none", "hashInit" (awaiting the first digest), "reading"    *)
(*            (awaiting arrayBuffer and the chunk digest), "callback"      *)
(*            (awaiting onChunkProcessed), "yield" (awaiting setTimeout),  *)
(*            "finalHash" (awaiting the last digest), "saveSession"        *)
(*            (processLargeFile awaiting saveSession), "done"              *)
(*   proc.cbLog: the calls of onChunkProcessed: when each began and ended  *)
(*   proc.stored: the put of the pending request succeeds                  *)
(***************************************************************************)
StreamFiles == UNION {[1..n -> {0, 1}] : n \in 0..MaxStreamSize}
ChunkSizes == 1..MaxChunkSize

\* Math.ceil(file.size / chunkSize), rounding down instead.
StreamTotalChunks_floor(size, chunkSize) == size \div chunkSize

\* Math.ceil(file.size / chunkSize)
StreamTotalChunks(size, chunkSize) == (size + chunkSize - 1) \div chunkSize

\* Blob.slice(start, end): both ends are clamped to the size.
BlobSlice(bytes, start, end) ==
  SubSeq(bytes, Min(start, Len(bytes)) + 1, Min(end, Len(bytes)))

\* The chunk the loop of processFileStream reads for chunkIndex.
StreamChunk(file, chunkIndex, chunkSize) ==
  LET start == chunkIndex * chunkSize
      end == Min(start + chunkSize, Len(file))
  IN BlobSlice(file, start, end)

\* readFileChunk(file, chunkIndex, chunkSize)
ReadFileChunk(file, chunkIndex, chunkSize) ==
  LET start == chunkIndex * chunkSize
      end == Min(start + chunkSize, Len(file))
  IN BlobSlice(file, start, end)

\* signal?.aborted, looked at before the first chunk only.
AbortObserved_firstOnly(p) == p.hasSignal /\ signalAborted /\ p.pc = "hashInit"

\* signal?.aborted
AbortObserved(p) == p.hasSignal /\ signalAborted

\* store.put(chunk): the record replaces the one with the same key.
PutChunk(chunks, chunkIndex, data) ==
  {c \in chunks : c.chunkIndex # chunkIndex}
    \cup {[chunkIndex |-> chunkIndex, data |-> data]}

\* The session record processLargeFile creates after the stream returned.
ProcessedSession(totalChunks) ==
  [exists |-> TRUE, totalChunks |-> totalChunks,
   completedChunks |-> [k \in 1..totalChunks |-> k - 1], isComplete |-> TRUE]

\* An error leaves processFileStream; processLargeFile's catch block records
\* it and throws it again.
Thrown(p, message) ==
  [p EXCEPT !.pc = "done", !.result = "error", !.error = message]

processFrame == <<senderVars, netVars, recvState, peerVars, authVars, peersVars,
                  sessionVars, overlapVars, assembleVars, cleanupVars, moreVars>>

StartedProc(caller, hasSignal, file, chunkSize) ==
  [NoProc EXCEPT !.pc = "hashInit", !.caller = caller, !.hasSignal = hasSignal,
                 !.file = file, !.chunkSize = chunkSize,
                 !.totalChunks = StreamTotalChunks(Len(file), chunkSize)]

\* processLargeFile(file): canProcessFile allows the file and recommends
\* chunkSize; processFileStream is called without a signal.
ProcessLargeFileCall(file, chunkSize) ==
  /\ proc.pc = "none"
  /\ proc' = StartedProc("processLargeFile", FALSE, file, chunkSize)
  /\ UNCHANGED <<procChunks, procSession, signalAborted, processFrame>>

\* processLargeFile(file): canProcessFile reports that the file is too large.
ProcessRefused(file) ==
  /\ proc.pc = "none"
  /\ proc' = Thrown([NoProc EXCEPT !.caller = "processLargeFile", !.file = file],
                    "File too large for this device")
  /\ UNCHANGED <<procChunks, procSession, signalAborted, processFrame>>

\* processFileStream(file, {chunkSize, onChunkProcessed, signal}) is called
\* by a caller holding an AbortController, whose signal may be aborted
\* already.
ProcessFileStreamCall(file, chunkSize, aborted) ==
  /\ proc.pc = "none"
  /\ proc' = StartedProc("direct", TRUE, file, chunkSize)
  /\ signalAborted' = aborted
  /\ UNCHANGED <<procChunks, procSession, processFrame>>

\* controller.abort()
AbortSignal ==
  /\ proc.hasSignal
  /\ proc.pc # "done"
  /\ ~signalAborted
  /\ signalAborted' = TRUE
  /\ UNCHANGED <<proc, procChunks, procSession, processFrame>>

\* The head of the for loop, reached when the first digest or the
\* setTimeout of the previous iteration resolves: the loop ends, or the
\* signal is looked at and the chunk is sliced and read.
StreamIterate ==
  /\ proc.pc \in {"hashInit", "yield"}
  /\ LET chunkIndex == IF proc.pc = "yield" THEN proc.chunkIndex + 1 ELSE 0
     IN proc' =
          IF chunkIndex >= proc.totalChunks
          THEN [proc EXCEPT !.pc = "finalHash", !.chunkIndex = chunkIndex]
          ELSE IF AbortObserved(proc)
          THEN Thrown([proc EXCEPT !.chunkIndex = chunkIndex],
                      "File processing aborted")
          ELSE [proc EXCEPT !.pc = "reading", !.chunkIndex = chunkIndex]
  /\ UNCHANGED <<procChunks, procSession, signalAborted, processFrame>>

\* The chunk is read and hashed; onChunkProcessed is called with it.  The
\* callback of processLargeFile issues storeChunk, whose put succeeds or not.
StreamReadDone(stored) ==
  /\ proc.pc = "reading"
  /\ proc' = [proc EXCEPT !.pc = "callback", !.stored = stored,
                          !.cbLog = Append(@, [ev |-> "begin", i |-> proc.chunkIndex])]
  /\ procChunks' =
       IF proc.caller = "processLargeFile" /\ stored
       THEN PutChunk(procChunks, proc.chunkIndex,
                     StreamChunk(proc.file, proc.chunkIndex, proc.chunkSize))
       ELSE procChunks
  /\ UNCHANGED <<procSession, signalAborted, processFrame>>

\* chunkBlob.arrayBuffer() rejects.
StreamReadFails ==
  /\ proc.pc = "reading"
  /\ proc' = Thrown(proc, "read error")
  /\ UNCHANGED <<procChunks, procSession, signalAborted, processFrame>>

\* onChunkProcessed resolves: processedChunks++, onProgress, setTimeout.
StreamCallbackDone ==
  /\ proc.pc = "callback"
  /\ proc.stored
  /\ proc' = [proc EXCEPT !.pc = "yield", !.processedChunks = @ + 1,
                          !.cbLog = Append(@, [ev |-> "end", i |-> proc.chunkIndex])]
  /\ UNCHANGED <<procChunks, procSession, signalAborted, processFrame>>

\* onChunkProcessed rejects (storeChunk failed).
StreamCallbackFails ==
  /\ proc.pc = "callback"
  /\ ~proc.stored
  /\ proc' = Thrown([proc EXCEPT
                       !.cbLog = Append(@, [ev |-> "failed", i |-> proc.chunkIndex])],
                    "store error")
  /\ UNCHANGED <<procChunks, procSession, signalAborted, processFrame>>

\* The final digest resolves and processFileStream returns its result;
\* processLargeFile creates the session and issues saveSession, whose put
\* succeeds or not.
StreamFinalHashDone(stored) ==
  /\ proc.pc = "finalHash"
  /\ IF proc.caller = "processLargeFile"
     THEN /\ proc' = [proc EXCEPT !.pc = "saveSession", !.stored = stored]
          /\ procSession' = IF stored THEN ProcessedSession(proc.totalChunks)
                            ELSE procSession
     ELSE /\ stored
          /\ proc' = [proc EXCEPT !.pc = "done", !.result = "returned"]
          /\ UNCHANGED procSession
  /\ UNCHANGED <<procChunks, signalAborted, processFrame>>

\* saveSession resolves and processLargeFile returns the fileId, or it
\* rejects and processLargeFile throws.
ProcessSaveDone ==
  /\ proc.pc = "saveSession"
  /\ proc' = IF proc.stored
             THEN [proc EXCEPT !.pc = "done", !.result = "returned"]
             ELSE Thrown(proc, "store error")
  /\ UNCHANGED <<procChunks, procSession, signalAborted, processFrame>>

InitProcess == Init /\ Len(files["a"]) = MaxFileSize

NextProcess ==
  \/ \E file \in StreamFiles, chunkSize \in ChunkSizes :
       ProcessLargeFileCall(file, chunkSize)
  \/ \E file \in StreamFiles : ProcessRefused(file)
  \/ \E file \in StreamFiles, chunkSize \in ChunkSizes, aborted \in BOOLEAN :
       ProcessFileStreamCall(file, chunkSize, aborted)
  \/ AbortSignal
  \/ StreamIterate
  \/ \E stored \in BOOLEAN : StreamReadDone(stored)
  \/ StreamReadFails
  \/ StreamCallbackDone
  \/ StreamCallbackFails
  \/ \E stored \in BOOLEAN : StreamFinalHashDone(stored)
  \/ ProcessSaveDone

SpecProcess == InitProcess /\ [][NextProcess]_vars

(***************************************************************************)
(* SpecChunking: one file is selected and, in any order, a session is      *)
(* created for it by initializeSession, it is processed by                 *)
(* processLargeFile, and it is served by sendFileInChunks.  Only the       *)
(* chunk size and the number of chunks each of them computes are kept.     *)
(* A size is a record [kib, rem] standing for kib * 1024 + rem bytes with  *)
(* rem < 1024, so that sizes beyond 2^31 bytes can be written; a chunk     *)
(* size is a multiple of 1024 bytes and is counted in KiB.  A count of 0   *)
(* chunk sizes means "not computed yet".                                   *)
(***************************************************************************)
MiB == 1024 * KiB
GiB == 1024 * MiB

\* The size of n bytes more than kib KiB, n < 1024.
Above(kib, n) == [kib |-> kib, rem |-> n]

\* The size of n bytes less than kib KiB, 0 < n <= 1024.
Beneath(kib, n) == [kib |-> kib - 1, rem |-> KiB - n]

\* fileSize < limit, for a limit of limitKiB KiB.
SizeBelow(fileSize, limitKiB) == fileSize.kib < limitKiB

\* a <= b, for sizes.
SizeLeq(a, b) == a.kib < b.kib \/ (a.kib = b.kib /\ a.rem <= b.rem)

\* The limits of getOptimalChunkSize, in KiB: 10 MiB, 100 MiB, 1 GiB, 10 GiB.
SizeLimits == {10 * KiB, 100 * KiB, MiB, 10 * MiB}

\* The sizes tried: no byte, one byte, each limit and the sizes up to
\* ProbeSpread bytes next to it, 50 MiB, 260 MiB, 5 GiB and 100 GiB.
ProbeSizes ==
  {Above(0, 0), Above(0, 1), Above(50 * KiB, 0), Above(260 * KiB, 0),
   Above(5 * MiB, 0), Above(100 * MiB, 0)}
    \cup {Above(limit, n) : limit \in SizeLimits, n \in 0..ProbeSpread}
    \cup {Beneath(limit, n) : limit \in SizeLimits, n \in 1..ProbeSpread}

\* getOptimalChunkSize with every limit belonging to the tier beneath it.
getOptimalChunkSize_inclusive(fileSize) ==
  IF SizeLeq(fileSize, Above(10 * KiB, 0)) THEN 256
  ELSE IF SizeLeq(fileSize, Above(100 * KiB, 0)) THEN 512
  ELSE IF SizeLeq(fileSize, Above(MiB, 0)) THEN 1024
  ELSE IF SizeLeq(fileSize, Above(10 * MiB, 0)) THEN 2 * 1024
  ELSE 4 * 1024

\* getOptimalChunkSize without tiers.
getOptimalChunkSize_fixed(fileSize) == 256

\* getOptimalChunkSize(fileSize), in KiB.
getOptimalChunkSize(fileSize) ==
  IF SizeBelow(fileSize, 10 * KiB) THEN 256
  ELSE IF SizeBelow(fileSize, 100 * KiB) THEN 512
  ELSE IF SizeBelow(fileSize, MiB) THEN 1024
  ELSE IF SizeBelow(fileSize, 10 * MiB) THEN 2 * 1024
  ELSE 4 * 1024

\* Math.ceil(fileSize / chunkSize), for a chunk size of chunkKiB KiB.
CeilChunks(fileSize, chunkKiB) ==
  (fileSize.kib + (IF fileSize.rem > 0 THEN 1 ELSE 0) + chunkKiB - 1) \div chunkKiB

\* CHUNK_SIZE of sendFileInChunks, in KiB.
SendChunkKiB == 256

chunkingFrame == <<olderVars, largeVars, statsVars, workerVars>>

\* The user selects a file.
SelectFile(fileSize) ==
  /\ ~sizing.selected
  /\ sizing' = [NoSizing EXCEPT !.selected = TRUE, !.fileSize = fileSize]
  /\ UNCHANGED chunkingFrame

\* initializeSession creates the session of the file.
SizeSession ==
  /\ sizing.selected /\ sizing.sessionChunkSize = 0
  /\ LET chunkSize == getOptimalChunkSize(sizing.fileSize)
     IN sizing' = [sizing EXCEPT !.sessionChunkSize = chunkSize,
                                 !.session = CeilChunks(sizing.fileSize, chunkSize)]
  /\ UNCHANGED chunkingFrame

\* processLargeFile processes the file with the chunk size canProcessFile
\* recommends and creates its session with the totalChunks of the result.
SizeProcessed ==
  /\ sizing.selected /\ sizing.processedChunkSize = 0
  /\ LET chunkSize == getOptimalChunkSize(sizing.fileSize)
     IN sizing' = [sizing EXCEPT !.processedChunkSize = chunkSize,
                                 !.processed = CeilChunks(sizing.fileSize, chunkSize)]
  /\ UNCHANGED chunkingFrame

\* sendFileInChunks computes the totalChunks it announces in file-start.
SizeSent ==
  /\ sizing.selected /\ sizing.sentChunkSize = 0
  /\ sizing' = [sizing EXCEPT !.sentChunkSize = SendChunkKiB,
                              !.announced = CeilChunks(sizing.fileSize, SendChunkKiB)]
  /\ UNCHANGED chunkingFrame

InitChunking == Init /\ Len(files["a"]) = MaxFileSize

NextChunking ==
  \/ \E fileSize \in ProbeSizes : SelectFile(fileSize)
  \/ SizeSession
  \/ SizeProcessed
  \/ SizeSent

SpecChunking == InitChunking /\ [][NextChunking]_vars

(***************************************************************************)
(* SpecLarge: Spec, with the sharing started either by startSharing or by  *)
(* startSharingLargeFiles, which first has processLargeFile process every  *)
(* file above the threshold (100 MB, here LargeFileThreshold bytes) and    *)
(* save its session, and then calls startSharing.                          *)
(***************************************************************************)
\* canProcess.recommendedChunkSize for the files of the model.
RecommendedChunkSize == MaxChunkSize

\* file.size > 100 * 1024 * 1024
IsLargeFile(f) == Len(files[f]) > LargeFileThreshold

\* startSharingLargeFiles was the way the sharing was started: the sessions
\* of the large files hold the fileHash processFileStream returned.
StartSharingLargeFiles ==
  /\ connState = "idle"
  /\ \A f \in FileNames : processedHash[f] = NoHash
  /\ \E f \in FileNames : IsLargeFile(f)
  /\ processedHash' =
       [f \in FileNames |->
          IF IsLargeFile(f) THEN StreamFingerprint(files[f], RecommendedChunkSize)
          ELSE NoHash]
  /\ UNCHANGED <<olderVars, chunkingVars, statsVars, workerVars>>

InitLarge == Init

NextLarge ==
  \/ StartSharingLargeFiles
  \/ Next

SpecLarge == InitLarge /\ [][NextLarge]_vars

(***************************************************************************)
(* SpecSaveFail: SpecSession with a sessions store whose put can fail      *)
(* (request.onerror of saveSession).  A put that fails leaves the store    *)
(* as it was; its promise rejects in a later step.                         *)
(*   loop.pc: as in SpecSession, and "saveFailing" (awaiting a saveSession *)
(*            whose put has failed)                                        *)
(***************************************************************************)
\* handleAck sees the ack of the chunk with success: the progress is
\* updated, the index pushed and saveSession called, whose put fails.
AckSuccessSaveFails ==
  /\ loop.pc = "waitack"
  /\ loop' = [loop EXCEPT !.session = SessionAfterAck(loop.session, CurrentChunk(loop)),
                          !.pc = "saveFailing"]
  /\ transferState' = AfterChunk(transferState)
  /\ ackedChunks' = ackedChunks \cup {CurrentChunk(loop)}
  /\ UNCHANGED <<sessionStore, chunkStore, activeSessions, transferControllers,
                 abortedCtls, nResumes, sendLog, onErrorCalls, onCompleteCalls,
                 cancelPc, otherVars>>

\* saveSession rejects: catch and finally.
SaveRejected ==
  /\ loop.pc = "saveFailing"
  /\ Catch(loop, transferState, "store error")
  /\ UNCHANGED <<chunkStore, activeSessions, abortedCtls, nResumes, sendLog,
                 cancelPc, ackedChunks, otherVars>>

InitSaveFail == InitSession

NextSaveFail ==
  \/ NextSession
  \/ AckSuccessSaveFails
  \/ SaveRejected

SpecSaveFail == InitSaveFail /\ [][NextSaveFail]_vars

(***************************************************************************)
(* SpecStats: the statistics of the TransferState of one session of        *)
(* TotalChunks chunks: initializeSession creates it, time passes, and each *)
(* transferred chunk is counted and passed to updateTransferStats.         *)
(* Times are in milliseconds, sizes in KiB, the speed in KiB per second    *)
(* and the ETA in seconds, both as fractions.                              *)
(***************************************************************************)
\* getOptimalChunkSize(session.fileSize) for a file under 10 MiB, in KiB.
StatsChunkSize == getOptimalChunkSize(Above(0, 1))

\* updateTransferStats(fileId, chunkSize) on statistics st at time now.
UpdateTransferStats(st, chunkSize) ==
  LET pushed == Append(st.history, st.now)
      history == IF Len(pushed) > HistoryLimit THEN Tail(pushed) ELSE pushed
      msDiff == history[Len(history)] - history[1]
      bytesDiff == (Len(history) - 1) * chunkSize
      remainingBytes == (TotalChunks - st.transferredChunks) * chunkSize
  IN IF Len(history) >= 2 /\ msDiff > 0
     THEN [st EXCEPT !.history = history,
                     !.transferSpeed = Fraction(bytesDiff * 1000, msDiff),
                     !.estimatedTimeRemaining =
                        Fraction(remainingBytes * msDiff, bytesDiff * 1000)]
     ELSE [st EXCEPT !.history = history]

statsFrame == <<olderVars, chunkingVars, largeVars, workerVars>>

\* initializeSession creates the TransferState of a new session.
StatsInitialize ==
  /\ ~stats.initialized
  /\ stats' = [NoStats EXCEPT !.initialized = TRUE, !.now = stats.now]
  /\ UNCHANGED statsFrame

\* A millisecond passes.
StatsTick ==
  /\ stats.now < MaxStatsClock
  /\ stats' = [stats EXCEPT !.now = @ + 1]
  /\ UNCHANGED statsFrame

\* A chunk was transferred: transferredChunks++, then updateTransferStats.
StatsChunk ==
  /\ stats.initialized
  /\ stats.transferredChunks < TotalChunks
  /\ stats' = UpdateTransferStats([stats EXCEPT !.transferredChunks = @ + 1],
                                  StatsChunkSize)
  /\ UNCHANGED statsFrame

InitStats == Init /\ Len(files["a"]) = MaxFileSize

NextStats ==
  \/ StatsInitialize
  \/ StatsTick
  \/ StatsChunk

SpecStats == InitStats /\ [][NextStats]_vars

(***************************************************************************)
(* SpecWorker: the service worker for one download URL.  The page posts    *)
(* DOWNLOAD_START, then chunks whose lengths add up to the announced size, *)
(* then DOWNLOAD_COMPLETE; the browser fetches the URL once, at any time   *)
(* after DOWNLOAD_START, and may cancel the response stream.  A message    *)
(* is handled when it is posted.  A chunk is its number of arrival and its *)
(* byteLength.                                                             *)
(***************************************************************************)
\* controller.enqueue(new Uint8Array(chunk)): a TypeError on a closed stream.
Enqueue(d, chunk) ==
  IF d.closed THEN [d EXCEPT !.errors = @ + 1]
  ELSE [d EXCEPT !.enqueued = Append(@, chunk)]

\* controller.close(): a TypeError on a closed stream.
CloseStream(d) ==
  IF d.closed THEN [d EXCEPT !.closeCalls = @ + 1, !.errors = @ + 1]
  ELSE [d EXCEPT !.closeCalls = @ + 1, !.closed = TRUE]

\* downloadInfo.chunks.forEach(chunk => controller.enqueue(...)), from chunk k.
RECURSIVE EnqueueAll(_, _)
EnqueueAll(d, k) ==
  IF k > Len(d.chunks) THEN d ELSE EnqueueAll(Enqueue(d, d.chunks[k]), k + 1)

\* The DOWNLOAD_CHUNK branch of the message handler.
OnDownloadChunk(d, chunk) ==
  IF ~d.registered THEN d
  ELSE LET pushed == [d EXCEPT !.chunks = Append(@, chunk),
                               !.receivedBytes = @ + chunk.byteLength]
       IN IF ~pushed.controller THEN pushed
          ELSE IF pushed.closed THEN Enqueue(pushed, chunk)
          ELSE IF pushed.receivedBytes >= pushed.size
          THEN CloseStream(Enqueue(pushed, chunk))
          ELSE Enqueue(pushed, chunk)

\* The DOWNLOAD_COMPLETE branch of the message handler.
OnDownloadComplete(d) ==
  IF d.registered /\ d.controller THEN CloseStream(d) ELSE d

\* start(controller) of the stream of handleDownload.
StreamStart(d) ==
  LET flushed == EnqueueAll([d EXCEPT !.controller = TRUE], 1)
  IN IF flushed.receivedBytes >= flushed.size THEN CloseStream(flushed)
     ELSE flushed

workerFrame == <<olderVars, chunkingVars, largeVars, statsVars>>

\* DOWNLOAD_START: the entry of the URL is created.
DownloadStart(size) ==
  /\ ~download.started
  /\ download' = [NoDownload EXCEPT !.started = TRUE, !.registered = TRUE,
                                    !.size = size]
  /\ UNCHANGED workerFrame

\* DOWNLOAD_CHUNK with a chunk of byteLength bytes.
DownloadChunk(byteLength) ==
  /\ download.started
  /\ ~download.completePosted
  /\ download.posted + byteLength <= download.size
  /\ download' =
       [OnDownloadChunk(download,
                        [id |-> Len(download.chunks) + 1,
                         byteLength |-> byteLength])
          EXCEPT !.posted = @ + byteLength]
  /\ UNCHANGED workerFrame

\* The fetch of the URL: handleDownload, and start(controller) of its stream.
Fetch ==
  /\ download.registered
  /\ ~download.fetched
  /\ download' = StreamStart([download EXCEPT !.fetched = TRUE])
  /\ UNCHANGED workerFrame

\* DOWNLOAD_COMPLETE, posted after the last chunk.
DownloadComplete ==
  /\ download.started
  /\ ~download.completePosted
  /\ download.posted = download.size
  /\ download' = [OnDownloadComplete(download) EXCEPT !.completePosted = TRUE]
  /\ UNCHANGED workerFrame

\* cancel() of the stream: the entry of the URL is deleted.
StreamCancel ==
  /\ download.registered
  /\ download.controller
  /\ ~download.closed
  /\ download' = [download EXCEPT !.registered = FALSE]
  /\ UNCHANGED workerFrame

InitWorker == Init /\ Len(files["a"]) = MaxFileSize

NextWorker ==
  \/ \E size \in 1..MaxDownloadSize : DownloadStart(size)
  \/ \E byteLength \in 1..MaxChunkBytes : DownloadChunk(byteLength)
  \/ Fetch
  \/ DownloadComplete
  \/ StreamCancel

SpecWorker == InitWorker /\ [][NextWorker]_vars

(***************************************************************************)
(* Properties of Spec.                                                     *)
(***************************************************************************)
\* The call of run r has ended in success / in failure.
Succeeded(r) == runs[r].pc = "done"
Failed(r)    == runs[r].pc = "failed"

\* The file-chunk messages a call has sent, in order.
ChunksSent(r) ==
  SelectSeq(runs[r].sent, LAMBDA m : m.type = "file-chunk")

\* C1 (end-to-end integrity agreement): whenever a sendFileInChunks call has
\* ended in success for a file, the receiver has reassembled exactly the
\* sender's bytes of that file and has marked the file verified.
C1_IntegrityAgreement ==
  \A r \in Runs :
    Succeeded(r) =>
      /\ downloadedFiles[runs[r].file] = files[runs[r].file]
      /\ runs[r].file \in verifiedFiles

\* A call has ended in success for a file of more than one chunk.
C1_Witness ==
  \E r \in Runs : Succeeded(r) /\ RunTotalChunks(runs[r]) > 1

\* C2 (ack-gated progress): at most one chunk is pending, and it is the chunk
\* of the loop index; the wait for chunk i ends normally only when i has left
\* pendingChunks; an index leaves pendingChunks only in the step that delivers
\* a chunk-ack with the call's fileName and that index; the loop index
\* advances by one, and only from the delay that follows the acknowledged
\* wait; a call that has failed sends no further chunk.
C2_PendingAtMostOne ==
  \A r \in Runs :
    /\ Cardinality(runs[r].pendingChunks) <= 1
    /\ runs[r].pendingChunks \subseteq {runs[r].i}
    /\ runs[r].pc \in {"read", "delay", "final", "done"} => runs[r].pendingChunks = {}

C2_Step ==
  \A r \in Runs :
    LET old == runs[r]
        new == runs'[r]
    IN /\ (old.pc = "waitack" /\ new.pc = "delay") =>
            /\ old.i \notin old.pendingChunks
            /\ new.i = old.i
       /\ (old.pc # "idle" /\ new.i # old.i) =>
            /\ old.pc = "delay"
            /\ new.i = old.i + 1
            /\ old.pendingChunks = {}
       /\ (new.pc = "delay" /\ old.pc # "delay") => old.pc = "waitack"
       /\ (\E j \in old.pendingChunks : j \notin new.pendingChunks) =>
            /\ SenderGets("chunk-ack")
            /\ r2s' = Tail(r2s)
            /\ Head(r2s).fileName = old.file
            /\ Head(r2s).chunkIndex = old.i
       /\ (old.pc = "waitack" /\ old.i \in old.pendingChunks /\ new.pc # "waitack") =>
            /\ new.pc = "failed"
            /\ new.error = "ChunkTimeout"
       /\ old.pc = "failed" =>
            /\ new.pc = "failed"
            /\ ChunksSent(r)' = ChunksSent(r)

C2_AckGatedProgress == [](C2_PendingAtMostOne) /\ [][C2_Step]_vars

\* The second chunk of a file has been sent and is awaiting its acknowledgement.
C2_Witness ==
  \E r \in Runs :
    runs[r].pc = "waitack" /\ runs[r].i = 1 /\ runs[r].pendingChunks = {1}

\* C3 (send ordering): the first message of a call is its file-start; the
\* k-th chunk it sends carries index k-1, so indices are strictly increasing
\* and none is sent twice; isLast is true on the chunk of index totalChunks-1
\* and on no other; and an acknowledgement is consumed only for the chunk
\* sent last by the call.
C3_SentInOrder ==
  \A r \in Runs :
    LET sent   == runs[r].sent
        chunks == ChunksSent(r)
        total  == RunTotalChunks(runs[r])
    IN runs[r].pc # "idle" =>
         /\ sent # <<>> => sent[1] = FileStartMsg(runs[r].file)
         /\ \A k \in 2..Len(sent) : sent[k].type # "file-start"
         /\ \A k \in 1..Len(chunks) :
              /\ chunks[k].fileName = runs[r].file
              /\ chunks[k].chunkIndex = k - 1
              /\ chunks[k].chunkIndex < total
              /\ chunks[k].isLast = (chunks[k].chunkIndex = total - 1)
              /\ chunks[k].data.bytes =
                   SubSeq(files[runs[r].file], (k - 1) * CHUNK_SIZE + 1,
                          Min(k * CHUNK_SIZE, Len(files[runs[r].file])))

C3_AckStep ==
  \A r \in Runs :
    \A j \in runs[r].pendingChunks :
      j \notin runs'[r].pendingChunks =>
        /\ ChunksSent(r) # <<>>
        /\ j = ChunksSent(r)[Len(ChunksSent(r))].chunkIndex

C3_SendOrdering == [](C3_SentInOrder) /\ [][C3_AckStep]_vars

\* A call has sent file-start and all chunks of a file of two chunks.
C3_Witness ==
  \E r \in Runs :
    /\ runs[r].pc = "final"
    /\ RunTotalChunks(runs[r]) = 2
    /\ Len(ChunksSent(r)) = 2

\* C4 (completion recording): the sender marks a file completed only after a
\* file-complete with verified = true for it, which the receiver sends only
\* for a file it has verified, and a file is never marked completed and
\* failed at the same time.
C4_CompletionRecording ==
  \A f \in FileNames :
    /\ completedTransfers[f] => f \in verifiedFiles
    /\ ~(completedTransfers[f] /\ transferErrors[f] # "none")

\* C5 (end-to-end completion): on a connection that stays open, with no chunk
\* damaged, a single transfer whose chunks were all acknowledged and whose
\* file-complete (verified = true) has been delivered to the sender does not
\* end in failure, wherever in the call the delivery of file-complete fell.
C5_EndToEndCompletion ==
  \A r \in Runs :
    (/\ nRuns = 1
     /\ corruptions = 0
     /\ connOpen
     /\ runs[r].sawComplete) => ~Failed(r)

\* The step in which the call of run r fails.
Fails(r) == runs[r].pc \notin {"idle", "failed"} /\ runs'[r].pc = "failed"

\* C6 (per-file failure handling): the step in which a call fails passes a
\* transfer-error with the file's name to conn.send (it reaches the peer when
\* the connection is open), records the error for that file, and neither
\* closes the connection nor removes it from the set of connections; the
\* failure is one of: chunk timeout, connection found closed, final
\* confirmation timeout; and a request-file delivered on the connection
\* afterwards starts a new call.
C6_FailStep ==
  \A r \in Runs :
    Fails(r) =>
      LET f   == runs[r].file
          err == runs'[r].error
          new == SubSeq(runs'[r].sent, Len(runs[r].sent) + 1, Len(runs'[r].sent))
      IN /\ err \in {"ChunkTimeout", "ConnectionLost", "FinalAckTimeout"}
         /\ err = "ConnectionLost" => ~connOpen
         /\ \E k \in 1..Len(new) : new[k] = TransferErrorMsg(f, err)
         /\ connOpen => \E k \in (Len(s2r) + 1)..Len(s2r') :
                           s2r'[k] = TransferErrorMsg(f, err)
         /\ transferErrors'[f] = err
         /\ connState' = connState
         /\ connections' = connections
         /\ ChunksSent(r)' = ChunksSent(r)

C6_ServedStep ==
  (SenderGets("request-file") /\ r2s' = Tail(r2s) /\ connState' = connState) =>
    /\ nRuns' = nRuns + 1
    /\ runs'[nRuns'].file = Head(r2s).fileName
    /\ runs'[nRuns'].pc = "hash"

C6_AfterFailure ==
  \A r \in Runs :
    Failed(r) => Failed(r)' /\ ChunksSent(r)' = ChunksSent(r)

ChunkDelivered ==
  /\ peerMsgs' = peerMsgs + 1
  /\ peerLast'.type = "file-chunk"
  /\ handler.fileName # "none"
  /\ peerLast'.fileName = handler.fileName

\* The bytes a payload stands for, for the payloads that stand for bytes.
PayloadConvertible(d) ==
  d.kind \in {"ArrayBuffer", "Uint8Array", "Buffer", "Array", "TypedArray"}
PayloadBytes(d) == SubSeq(d.bytes, d.byteOffset + 1, d.byteOffset + d.byteLength)

\* The messages of a type about file f among the messages sent in the step.
SentNow(type, f) ==
  {k \in 1..Len(r2s') : r2s'[k].type = type /\ r2s'[k].fileName = f}

\* C7 (receiver acknowledgement): for each file-chunk of the file being
\* downloaded whose payload is non-empty, the receiver stores the payload
\* under its chunkIndex and sends exactly one chunk-ack with the file name
\* and that chunkIndex; for a payload that is empty or cannot be converted it
\* stores nothing, sends no chunk-ack and records a local error.
C7_Step ==
  ChunkDelivered =>
    LET m == peerLast'
        f == handler.fileName
    IN IF PayloadConvertible(m.data) /\ PayloadBytes(m.data) # <<>>
       THEN /\ m.chunkIndex \in DOMAIN handler'.fileChunks
            /\ handler'.fileChunks[m.chunkIndex] = PayloadBytes(m.data)
            /\ Cardinality(SentNow("chunk-ack", f)) = 1
            /\ \A k \in SentNow("chunk-ack", f) : r2s'[k].chunkIndex = m.chunkIndex
       ELSE /\ handler'.fileChunks = handler.fileChunks
            /\ SentNow("chunk-ack", f) = {}
            /\ downloadErrors'[f] \in
                 {"EmptyChunk", "InvalidChunkDataFormat", "InvalidChunkDataType"}

C7_ReceiverAck == [][C7_Step]_vars

\* The step sends file-complete for file f and marks f verified.
CompletesNow(f) ==
  /\ SentNow("file-complete", f) # {}
  /\ Len(verifying') < Len(verifying)
  /\ f \in verifiedFiles'

\* Every index below totalChunks is present and non-empty in chunks and the
\* lengths add up to expectedFileSize.
Sound(chunks, totalChunks, expectedFileSize) ==
  /\ \A i \in 0..(totalChunks - 1) : i \in DOMAIN chunks /\ Len(chunks[i]) > 0
  /\ TotalSize(chunks, totalChunks) = expectedFileSize

\* C8 as stated (verification soundness at the moment of sending): when the
\* receiver sends file-complete for the file being downloaded and marks it
\* verified, the reassembly map as it is at that moment holds a non-empty
\* chunk at every index, the lengths of its chunks add up to the fileSize the
\* verification was given, and the digest of the bytes reassembled is the
\* fileHash the verification was given.
C8_SoundAtThatMoment ==
  [][\A f \in FileNames :
       (CompletesNow(f) /\ handler.fileName = f) =>
         \A k \in 1..Len(verifying) :
           (verifying' = RemoveAt(verifying, k) /\ verifying[k].fileName = f) =>
             /\ Sound(handler.fileChunks, verifying[k].totalChunks,
                      verifying[k].expectedFileSize)
             /\ Digest(downloadedFiles'[f]) = verifying[k].expectedFileHash]_vars

\* C8 (verification soundness): the receiver sends file-complete for a file
\* and marks it verified only if the chunks the completeFileDownload call took
\* from the reassembly map when it was called were present and non-empty at
\* every index, their lengths add up to the fileSize the call was given and
\* the digest of their concatenation is the fileHash the call was given; the
\* bytes it stores for the file are that concatenation.
C8_VerificationSoundness ==
  [][\A f \in FileNames :
       CompletesNow(f) =>
         \E k \in 1..Len(verifying) :
           LET t == verifying[k]
               chunks == [i \in 0..(Len(t.orderedChunks) - 1) |-> t.orderedChunks[i + 1]]
           IN /\ verifying' = RemoveAt(verifying, k)
              /\ t.fileName = f
              /\ Len(t.orderedChunks) = t.totalChunks
              /\ Sound(chunks, t.totalChunks, t.expectedFileSize)
              /\ Digest(BlobOf(t.orderedChunks)) = t.expectedFileHash
              /\ downloadedFiles'[f] = BlobOf(t.orderedChunks)]_vars

\* A file of two chunks has just been verified: file-complete is the message
\* sent last.
C8_Witness ==
  \E f \in FileNames :
    /\ f \in verifiedFiles
    /\ r2s = <<FileCompleteMsg(f, downloadedFiles[f])>>
    /\ Len(downloadedFiles[f]) > CHUNK_SIZE

\* The step reports failure e of file f: file-error is sent, the error is
\* recorded, and the file is neither completed nor marked verified.
Reported(f, e) ==
  /\ \E k \in SentNow("file-error", f) : r2s'[k] = FileErrorMsg(f, e)
  /\ downloadErrors'[f] = e
  /\ SentNow("file-complete", f) = {}
  /\ verifiedFiles' = verifiedFiles
  /\ downloadedFiles' = downloadedFiles

\* The step stores a chunk and the completion test of the handler holds.
StartsVerification ==
  /\ ChunkDelivered
  /\ handler'.receivedChunks = handler.receivedChunks + 1
  /\ (peerLast'.isLast \/ handler'.receivedChunks = handler'.totalChunks)

\* C9 (verification failures are distinct and reported): when verification
\* starts with an index missing the receiver reports a missing-chunks failure;
\* with all indices present but lengths not adding up to the announced size, a
\* size-mismatch failure; when the digest computed differs from the announced
\* hash, an integrity-mismatch failure; each sends file-error with the file
\* name, records the error and sends no file-complete.
C9_Step ==
  /\ StartsVerification =>
       LET f       == handler.fileName
           chunks  == handler'.fileChunks
           n       == handler'.totalChunks
           missing == \E i \in 0..(n - 1) : i \notin DOMAIN chunks
       IN IF missing THEN Reported(f, "MissingChunks") /\ verifying' = verifying
          ELSE IF TotalSize(chunks, n) # handler'.expectedFileSize
          THEN Reported(f, "SizeMismatch") /\ verifying' = verifying
          ELSE Len(verifying') = Len(verifying) + 1 /\ SentNow("file-error", f) = {}
  /\ Len(verifying') < Len(verifying) =>
       \E k \in 1..Len(verifying) :
         LET t == verifying[k]
         IN /\ verifying' = RemoveAt(verifying, k)
            /\ Digest(BlobOf(t.orderedChunks)) # t.expectedFileHash =>
                 Reported(t.fileName, "IntegrityMismatch")

C9_FailuresReported == [][C9_Step]_vars

\* An integrity mismatch has just been reported for a complete file.
C9_Witness ==
  \E f \in FileNames :
    /\ r2s = <<FileErrorMsg(f, "IntegrityMismatch")>>
    /\ downloadErrors[f] = "IntegrityMismatch"
    /\ handler.fileName = f
    /\ MissingChunks(handler.fileChunks, handler.totalChunks) = {}

\* C10 (out-of-order tolerance): while the peer delivers the sender's
\* file-start and then the sender's chunks of the file, each once, in any
\* order, the download records no failure, verification does not start before
\* every index has been delivered, and it starts at most once.
C10_OutOfOrderTolerance ==
  peerHonest =>
    LET f     == handler.fileName
        total == TotalChunksOf(Len(files[f]))
        begun == Len(verifying) + (IF f \in verifiedFiles THEN 1 ELSE 0)
    IN /\ downloadErrors[f] = "none"
       /\ begun > 0 => peerDelivered = 0..(total - 1)
       /\ begun <= 1

(***************************************************************************)
(* Properties of Spec: downloads of several files.                         *)
(***************************************************************************)
\* The step delivers to the receiver a file-chunk of a file whose download
\* has been started and has neither failed nor been verified.
WantedChunkDelivered ==
  /\ ReceiverGets("file-chunk")
  /\ s2r' = Tail(s2r)
  /\ connState' = connState
  /\ Head(s2r).fileName \in downloadProgress
  /\ downloadErrors[Head(s2r).fileName] = "none"
  /\ Head(s2r).fileName \notin verifiedFiles

\* C11 (concurrent multi-file download): every file-chunk delivered for a
\* file whose download is in progress is stored in reassembly state of that
\* file and acknowledged, whichever other downloads have been started on the
\* connection in the meantime.
C11_Step ==
  WantedChunkDelivered =>
    LET m == Head(s2r)
    IN /\ handler'.fileName = m.fileName
       /\ m.chunkIndex \in DOMAIN handler'.fileChunks
       /\ \E k \in (Len(r2s) + 1)..Len(r2s') :
            r2s'[k] = ChunkAckMsg(m.fileName, m.chunkIndex)

C11_ConcurrentDownloads == [][C11_Step]_vars

(***************************************************************************)
(* Properties of SpecGate.  No action of SpecGate consumes s2r, so s2r is  *)
(* the sequence of the messages the sender has sent on the connection.     *)
(***************************************************************************)
RepliedAuthSuccessBefore(k) ==
  \E j \in 1..(k - 1) : s2r[j].type = "auth-success"

\* C12: when a password is configured, the sender sends file-start and
\* file-chunk messages on a connection only after it has replied auth-success
\* on that connection.
C12_PasswordEnforcement ==
  password # "" =>
    \A k \in 1..Len(s2r) :
      s2r[k].type \in {"file-start", "file-chunk"} => RepliedAuthSuccessBefore(k)

PasswordDelivered ==
  /\ SenderGets("password")
  /\ r2s' = Tail(r2s)

C14_Step ==
  PasswordDelivered =>
    LET supplied == Head(r2s).password
        reply == IF password = "" \/ supplied = password
                 THEN "auth-success" ELSE "auth-failed"
    IN /\ s2r' = Append(s2r, [type |-> reply])
       /\ connState' = connState
       /\ connections' = connections

\* C14: a password message is answered with auth-success exactly when no
\* password is configured or the supplied one equals the configured one, and
\* with auth-failed otherwise; the reply leaves the connection open and
\* registered, so a later correct password is answered with auth-success.
C14_PasswordReply == [][C14_Step]_vars

\* A wrong password was answered with auth-failed and a later one with
\* auth-success, on the same open and registered connection.
C14_Witness ==
  /\ password # ""
  /\ connOpen
  /\ "conn" \in connections
  /\ \E j, k \in 1..Len(s2r) :
       /\ j < k
       /\ s2r[j].type = "auth-failed"
       /\ s2r[k].type = "auth-success"

(***************************************************************************)
(* Properties of SpecAuth.                                                 *)
(***************************************************************************)
SendsRequestFile ==
  \E k \in 1..Len(r2s') :
    /\ r2s'[k].type = "request-file"
    /\ k > Len(r2s)

Delivered(type) ==
  /\ ReceiverGets(type)
  /\ s2r' = Tail(s2r)
  /\ connState' = connState

C13_Step ==
  /\ SendsRequestFile => ~passwordRequired
  /\ (Delivered("file-list") /\ Head(s2r).passwordRequired) => passwordRequired'
  /\ (passwordRequired /\ ~passwordRequired') => Delivered("auth-success")
  /\ (passwordRequired /\ Delivered("auth-failed")) => passwordRequired'

\* C13: a file-list with passwordRequired = true blocks file requests; the
\* receiver sends no request-file while they are blocked; only the delivery of
\* auth-success unblocks them, and the delivery of auth-failed leaves them
\* blocked.
C13_ReceiverGating == [][C13_Step]_vars

\* A password was required, two passwords were submitted, file requests are
\* unblocked and a request-file is on its way.
C13_Witness ==
  /\ password # ""
  /\ attempts >= 2
  /\ ~passwordRequired
  /\ \E k \in 1..Len(r2s) : r2s[k].type = "request-file"

(***************************************************************************)
(* Properties of Spec: the connection has closed.                          *)
(***************************************************************************)
Ended(r) == runs[r].pc \in {"done", "failed"}

\* C15: after the close of the connection, the connection is out of the
\* sender's connection set, and a call of sendFileInChunks that has ended has
\* neither its chunk-ack listener nor its final-confirmation listener
\* registered on the connection.
C15_CloseCleanup ==
  connState = "closed" =>
    /\ "conn" \notin connections
    /\ \A r \in Runs :
         Ended(r) => ~runs[r].ackListener /\ ~runs[r].completeListener

(***************************************************************************)
(* Properties of SpecPeers.                                                *)
(***************************************************************************)
\* The sender handles a chunk-ack or a file-complete that arrived on c.
AckHandledOn(c) ==
  /\ PeersGets(c, "chunk-ack") \/ PeersGets(c, "file-complete")
  /\ pIn'[c] = Tail(pIn[c])
  /\ pState' = pState

\* The call on c fails by the timeout of an acknowledgement, or c closes.
TimeoutOrCloseOn(c) ==
  \/ pRuns[c].pc = "waitack" /\ pRuns'[c].pc = "failed"
  \/ pState[c] = "open" /\ pState'[c] = "closed"

Untouched(d) ==
  /\ pRuns'[d] = pRuns[d]
  /\ pState'[d] = pState[d]
  /\ pIn'[d] = pIn[d]

C16_Step ==
  \A c, d \in Conns :
    (c # d /\ (AckHandledOn(c) \/ TimeoutOrCloseOn(c))) => Untouched(d)

\* C16: a chunk-ack or file-complete handled on one connection, and an
\* acknowledgement timeout or a close of one connection, leave the call, the
\* state and the pending messages of the other connection as they were: no
\* wait of the other call is released and the other call is not failed.
C16_PeerIndependence == [][C16_Step]_vars

\* The call on A has failed and every message of A has been handled, A's
\* peer having sent more than its request; the call on B has completed.
C16_Witness ==
  /\ pRuns["A"].pc = "failed"
  /\ pBudget["A"] >= 2
  /\ pIn["A"] = <<>>
  /\ pState["B"] = "open"
  /\ pRuns["B"].pc = "done"

(***************************************************************************)
(* Properties of SpecSession.                                              *)
(***************************************************************************)
Range(seq) == {seq[k] : k \in 1..Len(seq)}

\* The chunk indices recorded as completed in the sessions store.
Persisted == Range(sessionStore.completedChunks)

SendsChunk == sendLog' # sendLog

LastSent == sendLog'[Len(sendLog')]

LoopCompletes == loop.pc = "saveFinal" /\ loop'.pc = "exited"

C17_Step ==
  /\ SendsChunk => LastSent \notin Persisted
  /\ (loop.pc # "saveFinal" /\ loop'.pc = "saveFinal") =>
       transferState'.status = "complete"
  /\ LoopCompletes =>
       /\ Range(loop.session.completedChunks) = 0..(TotalChunks - 1)
       /\ Len(loop.session.completedChunks) = TotalChunks
       /\ loop.session.isComplete

\* C17: no call of resumeTransfer sends a chunk index that the persisted
\* completedChunks already holds, whatever pauses, cancellations and failures
\* ended the calls before it; a call that runs to its end sets the status
\* 'complete' and has every index in completedChunks, once.
C17_ResumeNeverResends == [][C17_Step]_vars

\* A first call was paused and left by 'Transfer aborted' with some chunks
\* completed; a second call completed the transfer; every index was sent once.
C17_Witness ==
  /\ nResumes = 2
  /\ onErrorCalls = <<"Transfer aborted">>
  /\ onCompleteCalls = 1
  /\ transferState.status = "complete"
  /\ sessionStore.isComplete
  /\ Len(sendLog) = TotalChunks
  /\ Persisted = 0..(TotalChunks - 1)

\* C18: while cancelTransfer has not been called, so that pauseTransfer is the
\* only source of an abort, the exit of the loop on an abort neither sets the
\* status 'error' nor calls onError.
C18_PauseNotError ==
  cancelPc = "none" =>
    /\ "Transfer aborted" \notin Range(onErrorCalls)
    /\ ~(transferState.status = "error" /\ transferState.error = "Transfer aborted")

\* The running call's controller has been aborted.
LoopAborted ==
  /\ LoopRunning
  /\ loop.controller # 0
  /\ loop.controller \in abortedCtls

AbortSignalled ==
  /\ LoopRunning
  /\ loop.controller \notin abortedCtls
  /\ loop.controller \in abortedCtls'

C19_Step ==
  /\ AbortSignalled => loop' = loop /\ sendLog' = sendLog
  /\ LoopAborted =>
       /\ SendsChunk => loop.pc = "tcGetChunk" /\ LastSent = CurrentChunk(loop)
       /\ loop.pc = "waitack" => loop'.pc \in {"waitack", "saving", "exited"}
       /\ loop.pc \in {"saving", "yield", "saveFinal"} =>
            loop'.pc \in {"saving", "yield", "saveFinal", "exited"}
       /\ loop'.pc \notin {"saveFinal", "exited"} => loop'.pos = loop.pos

\* C19: the abort signalled by pauseTransfer or cancelTransfer does not touch
\* the running call; the chunk in flight is still awaited until its ack or
\* its timeout, the call sends no chunk of another index afterwards, and it
\* leaves at the head of the next iteration (or finishes, when the chunk in
\* flight was the last one).
C19_ChunkBoundary == [][C19_Step]_vars

\* The call sent one chunk, the chunk completed, and the call left at the
\* next loop head because of the abort.
C19_Witness ==
  /\ nResumes = 1
  /\ loop.pc = "exited"
  /\ loop.controller \in abortedCtls
  /\ onErrorCalls = <<"Transfer aborted">>
  /\ Len(sendLog) = 1
  /\ Len(loop.session.completedChunks) = 1

\* C20: once cancelTransfer(fileId, true) has returned and no call of
\* resumeTransfer is running, the stores hold no session record and no chunk
\* of fileId.
C20_CancelDeleteFinal ==
  (cancelPc = "returned" /\ ~LoopRunning) =>
    /\ ~sessionStore.exists
    /\ chunkStore = {}

(***************************************************************************)
(* Properties of SpecOverlap.                                              *)
(***************************************************************************)
NoDuplicate(seq) ==
  \A j, k \in 1..Len(seq) : j # k => seq[j] # seq[k]

\* C21: with calls of resumeTransfer that overlap, no chunk index is sent
\* twice, the persisted completedChunks holds no index twice, and
\* transferredChunks does not exceed totalChunks.
C21_SerializedMutation ==
  /\ NoDuplicate(sendLog)
  /\ NoDuplicate(sessionStore.completedChunks)
  /\ transferState.transferredChunks <= TotalChunks

(***************************************************************************)
(* Properties of SpecSession: what the sessions store holds.               *)
(***************************************************************************)
AllIndices == 0..(TotalChunks - 1)

\* cancelTransfer(fileId, true) has not been called.
NotDeleted == cancelPc \in {"none", "kept"}

\* What the sessions store holds if the page is lost now: a put whose promise
\* has not resolved yet is not counted.
DurableChunks ==
  IF loop.pc = "saving"
  THEN Range(SubSeq(sessionStore.completedChunks, 1,
                    Len(sessionStore.completedChunks) - 1))
  ELSE Persisted

CrashWindow == ackedChunks \ DurableChunks

C22_Step ==
  (NotDeleted /\ SendsChunk) => ackedChunks \subseteq Persisted

\* C22: during the calls of resumeTransfer, and as long as the data of the
\* file is not deleted, at most one chunk index whose ack with success was
\* received is missing from the persisted completedChunks, and every such
\* index is persisted before the next chunk is sent.
C22_CrashWindowOfOne ==
  /\ [](NotDeleted => Cardinality(CrashWindow) <= 1)
  /\ [][C22_Step]_vars

\* The second ack was received and its save has not resolved yet.
C22_Witness ==
  /\ NotDeleted
  /\ loop.pc = "saving"
  /\ Cardinality(ackedChunks) = 2
  /\ Cardinality(CrashWindow) = 1

C23_Step ==
  /\ (~sessionStore.isComplete /\ sessionStore'.isComplete) =>
       /\ loop'.pc = "saveFinal"
       /\ loop'.pos > Len(loop'.remaining)
       /\ Range(loop'.remaining) \subseteq ackedChunks
  /\ onErrorCalls' # onErrorCalls => sessionStore' = sessionStore

\* C23: a stored session record with isComplete = true has every index of
\* 0..totalChunks-1 in completedChunks; isComplete is set only by a call
\* whose loop has run through all its remaining indices, each acknowledged,
\* and a call that leaves through the catch block does not write the record.
C23_CompletionFlag ==
  /\ []((sessionStore.exists /\ sessionStore.isComplete) => Persisted = AllIndices)
  /\ [][C23_Step]_vars

\* A call ended in an error without setting the flag, a later one completed.
C23_Witness ==
  /\ sessionStore.exists
  /\ sessionStore.isComplete
  /\ Len(onErrorCalls) >= 1
  /\ onCompleteCalls = 1
  /\ loop.pc = "exited"

IsPrefix(a, b) == Len(a) <= Len(b) /\ SubSeq(b, 1, Len(a)) = a

\* The stored session is one of the resumable transfers.
Resumable ==
  \E k \in 1..Len(GetResumableTransfers) : GetResumableTransfers[k] = sessionStore

C24_Step ==
  (cancelPc' \in {"none", "kept"} /\ sessionStore.exists) =>
    /\ sessionStore'.exists
    /\ IsPrefix(sessionStore.completedChunks, sessionStore'.completedChunks)

\* C24: as long as cancelTransfer(fileId, true) is not called, the stored
\* session stays in the store and its completedChunks only grows; while it is
\* incomplete and has a completed chunk, getResumableTransfers returns it.
C24_ProgressKept ==
  /\ [][C24_Step]_vars
  /\ []((NotDeleted /\ ~sessionStore.isComplete /\ Persisted # {}) => Resumable)

\* After a call left by a pause and a call left by a chunk timeout, the
\* session is incomplete, has completed chunks, and is resumable.
C24_Witness ==
  /\ cancelPc = "none"
  /\ ~LoopRunning
  /\ "Transfer aborted" \in Range(onErrorCalls)
  /\ "Chunk send timeout" \in Range(onErrorCalls)
  /\ Persisted # {}
  /\ Resumable

NoRemaining(session) ==
  \A i \in 0..(session.totalChunks - 1) : i \in Range(session.completedChunks)

\* getSession resolves in a call on an initialized session without remaining chunks.
ResumesWithNothingLeft ==
  /\ loop.pc = "getSession"
  /\ loop'.pc # "getSession"
  /\ loop.got.exists
  /\ activeSessions
  /\ NoRemaining(loop.got)

C25_Step ==
  /\ ResumesWithNothingLeft =>
       /\ sendLog' = sendLog
       /\ loop'.pc = "saveFinal"
       /\ transferState'.status = "complete"
       /\ transferState'.progress = 100
       /\ sessionStore'.completedChunks = loop.got.completedChunks
       /\ sessionStore'.totalChunks = loop.got.totalChunks
       /\ sessionStore'.isComplete
       /\ loop.got.isComplete => sessionStore' = sessionStore
  /\ LoopCompletes =>
       /\ onCompleteCalls' = onCompleteCalls + 1
       /\ sendLog' = sendLog

\* C25: resumeTransfer on an initialized session without remaining chunks
\* sends nothing, sets status 'complete' and progress 100 and calls
\* onComplete; on a session that is already marked complete it leaves the
\* stored record as it was.
C25_ResumeIdempotence == [][C25_Step]_vars

\* The first call transferred every chunk, and two further calls in a row
\* found nothing left: three calls of onComplete, every index sent once.
C25_Witness ==
  /\ nResumes = 3
  /\ onCompleteCalls = 3
  /\ onErrorCalls = <<>>
  /\ Len(sendLog) = TotalChunks
  /\ loop.pc = "exited"
  /\ transferState.status = "complete"
  /\ sessionStore.isComplete

(***************************************************************************)
(* Properties of SpecAssemble.                                             *)
(***************************************************************************)
\* C26: assembleFile succeeds only for a session whose completedChunks
\* holds every index of 0..totalChunks-1.
C26_AssembleNeedsCompletion ==
  assembly.result = "ok" =>
    Range(assembly.session.completedChunks) = 0..(assembly.session.totalChunks - 1)

(***************************************************************************)
(* Properties of SpecCleanup.                                              *)
(***************************************************************************)
\* The record of f was in the store at the call, incomplete and older than
\* the cutoff of the call.
OldIncomplete(f) ==
  /\ cleanup.sessionsBefore[f].exists
  /\ ~cleanup.sessionsBefore[f].isComplete
  /\ cleanup.sessionsBefore[f].timestamp < cleanup.cutoffTime

\* The stores hold for f what they held at the call.
AsBefore(f) ==
  /\ sessionsDb[f] = cleanup.sessionsBefore[f]
  /\ chunksDb[f] = cleanup.chunksBefore[f]

\* The stores hold nothing for f.
Removed(f) == ~sessionsDb[f].exists /\ chunksDb[f] = {}

C27_Step ==
  /\ cleanup.pc # "none" =>
       \A f \in FileIds :
         (activeStates[f].present /\ activeStates[f].status = "transferring")
           => activeStates'[f] = activeStates[f]
  /\ cleanup.pc \notin {"none", "done"} =>
       \A f \in FileIds : ~OldIncomplete(f) => (AsBefore(f) /\ AsBefore(f)')

\* C27: once cleanupOldSessions has gone through the sessions, the incomplete
\* sessions older than the cutoff are gone with their chunks, and every
\* other session and the chunks of every other fileId are as they were at
\* the call; no step of cleanupOldTransfers changes or removes the
\* TransferState of a fileId whose status is 'transferring'.
C27_CleanupFrame ==
  /\ [](cleanup.pc = "done" =>
          \A f \in FileIds : IF OldIncomplete(f) THEN Removed(f) ELSE AsBefore(f))
  /\ [][C27_Step]_vars

\* Cleanup has run over an old incomplete session with a chunk, which it
\* removed, and an old complete session with a chunk, which it kept, and has
\* dropped a stale TransferState while keeping one that is transferring.
C27_Witness ==
  /\ cleanup.pc = "done"
  /\ \E f, g \in FileIds :
       /\ OldIncomplete(f) /\ cleanup.chunksBefore[f] # {} /\ Removed(f)
       /\ cleanup.sessionsBefore[g].exists
       /\ cleanup.sessionsBefore[g].isComplete
       /\ cleanup.sessionsBefore[g].timestamp < cleanup.cutoffTime
       /\ chunksDb[g] # {} /\ sessionsDb[g].exists
       /\ ~activeStates[f].present
       /\ activeStates[g].present /\ activeStates[g].status = "transferring"
       /\ activeStates[g].lastActivity < cleanup.cutoffTime

(***************************************************************************)
(* Properties of SpecProcess.                                              *)
(***************************************************************************)
\* C28: after processLargeFile has thrown, the stores hold no chunk and no
\* session for the fileId of the run.
C28_NoPartialData ==
  (proc.caller = "processLargeFile" /\ proc.result = "error")
    => (procChunks = {} /\ ~procSession.exists)

\* processFileStream has been called with proc.file and proc.chunkSize.
StreamCalled == proc.pc # "none" /\ proc.error # "File too large for this device"

\* The call of onChunkProcessed for index i began only now.
CallbackBegins(i) ==
  /\ Len(proc'.cbLog) = Len(proc.cbLog) + 1
  /\ proc'.cbLog[Len(proc'.cbLog)] = [ev |-> "begin", i |-> i]

\* processFileStream returns its result only now.
StreamReturns ==
  /\ proc.pc = "finalHash"
  /\ proc'.pc \in {"saveSession", "done"}

\* The k-th entry of a log in which the calls for 0, 1, 2, ... follow each
\* other, each begun after the one before has ended.
InTurn(log, k) ==
  IF k % 2 = 1
  THEN log[k] = [ev |-> "begin", i |-> (k - 1) \div 2]
  ELSE /\ log[k].i = (k \div 2) - 1
       /\ log[k].ev = "end" \/ (log[k].ev = "failed" /\ k = Len(log))

\* Every index of 0..totalChunks-1 was handed to onChunkProcessed once, in
\* increasing order, each call after the one before has ended.
OncePerIndex ==
  /\ \A k \in 1..Len(proc.cbLog) : InTurn(proc.cbLog, k)
  /\ Len(proc.cbLog) <= 2 * proc.totalChunks
  /\ (proc.pc = "finalHash" \/ proc.result = "returned")
       => /\ Len(proc.cbLog) = 2 * proc.totalChunks
          /\ \A k \in 1..Len(proc.cbLog) : proc.cbLog[k].ev # "failed"

C29_Original_Step ==
  (proc.hasSignal /\ signalAborted) =>
     /\ \A i \in 0..MaxStreamSize : ~CallbackBegins(i)
     /\ ~StreamReturns

\* C29 as stated: onChunkProcessed is called once per index in increasing
\* order, one call after the other, and from the moment the signal is
\* aborted on no call of onChunkProcessed begins and no result is returned.
C29_CallbackDiscipline ==
  /\ [](StreamCalled => OncePerIndex)
  /\ [][C29_Original_Step]_vars

C29_Amended_Step ==
  /\ (proc.pc # "reading" /\ proc'.pc = "reading") => ~(proc.hasSignal /\ signalAborted)
  /\ (/\ proc.pc \in {"hashInit", "yield"} /\ proc'.pc # proc.pc
      /\ proc.hasSignal /\ signalAborted
      /\ proc'.chunkIndex < proc.totalChunks)
       => (proc'.result = "error" /\ proc'.error = "File processing aborted")
  /\ proc.result = "error" => proc' = proc

\* C29, amended: onChunkProcessed is called once per index in increasing
\* order, one call after the other; the signal is looked at before every
\* chunk is read, and a call that finds it aborted there throws, after which
\* no call of onChunkProcessed begins and no result is returned.
C29_AbortAtBoundary ==
  /\ [](StreamCalled => OncePerIndex)
  /\ [][C29_Amended_Step]_vars

\* A call with a signal was aborted while the callback of chunk 0 of several
\* chunks was running: it threw at the head of the next iteration, after
\* exactly the call for chunk 0.
C29_Witness ==
  /\ proc.hasSignal /\ signalAborted
  /\ proc.totalChunks >= 2
  /\ proc.result = "error" /\ proc.error = "File processing aborted"
  /\ proc.cbLog = <<[ev |-> "begin", i |-> 0], [ev |-> "end", i |-> 0]>>

RECURSIVE JoinChunks(_, _, _, _)
\* The chunks Chunk(file, i, chunkSize) of the indices i..totalChunks-1,
\* concatenated.
JoinChunks(Chunk(_, _, _), file, chunkSize, i) ==
  IF i >= StreamTotalChunks(Len(file), chunkSize) THEN <<>>
  ELSE Chunk(file, i, chunkSize) \o JoinChunks(Chunk, file, chunkSize, i + 1)

RECURSIVE JoinStored(_, _)
\* The data of the stored chunks of the indices i, i+1, ..., concatenated.
JoinStored(chunks, i) ==
  IF \A c \in chunks : c.chunkIndex < i THEN <<>>
  ELSE LET here == {c \in chunks : c.chunkIndex = i}
       IN (IF here = {} THEN <<>> ELSE (CHOOSE c \in here : TRUE).data)
            \o JoinStored(chunks, i + 1)

\* The bytes of file in the range [i*chunkSize, min((i+1)*chunkSize, size)).
ByteRange(file, i, chunkSize) ==
  [k \in 1..(Min((i + 1) * chunkSize, Len(file)) - i * chunkSize) |->
     file[i * chunkSize + k]]

\* What C30 states of a way Chunk(file, i, chunkSize) of cutting chunks.
RoundTrip(Chunk(_, _, _), file, chunkSize) ==
  LET size == Len(file)
      totalChunks == StreamTotalChunks(size, chunkSize)
  IN /\ totalChunks * chunkSize >= size
     /\ (totalChunks - 1) * chunkSize < size
     /\ JoinChunks(Chunk, file, chunkSize, 0) = file
     /\ \A i \in 0..(totalChunks - 1) :
          /\ Chunk(file, i, chunkSize) = ByteRange(file, i, chunkSize)
          /\ Len(Chunk(file, i, chunkSize)) >= 1
          /\ i < totalChunks - 1 => Len(Chunk(file, i, chunkSize)) = chunkSize

\* C30: for the file and chunk size of a call, totalChunks is
\* ceil(size / chunkSize); the chunks of processFileStream and of
\* readFileChunk are the byte ranges [i*chunkSize, min((i+1)*chunkSize, size)),
\* none empty, all but the last of length chunkSize, and concatenated in index
\* order they are the file; the chunks the run has stored are these chunks,
\* and after a run that returned they are all there.
C30_ChunkingRoundTrip ==
  StreamCalled =>
    /\ proc.totalChunks = StreamTotalChunks(Len(proc.file), proc.chunkSize)
    /\ RoundTrip(StreamChunk, proc.file, proc.chunkSize)
    /\ RoundTrip(ReadFileChunk, proc.file, proc.chunkSize)
    /\ \A c \in procChunks :
         c.data = ByteRange(proc.file, c.chunkIndex, proc.chunkSize)
    /\ (proc.caller = "processLargeFile" /\ proc.result = "returned")
         => /\ Cardinality(procChunks) = proc.totalChunks
            /\ JoinStored(procChunks, 0) = proc.file

\* processLargeFile has returned for a file of three bytes, not all equal,
\* cut into a chunk of two bytes and a last chunk of one byte.
C30_Witness ==
  /\ proc.caller = "processLargeFile" /\ proc.result = "returned"
  /\ proc.file = <<0, 1, 1>> /\ proc.chunkSize = 2
  /\ procChunks = {[chunkIndex |-> 0, data |-> <<0, 1>>],
                   [chunkIndex |-> 1, data |-> <<1>>]}

(***************************************************************************)
(* Properties of SpecChunking.                                             *)
(***************************************************************************)
\* The chunk size, in KiB, the tiers of the specification give a size.
TierOf(fileSize) ==
  LET below(limitKiB) == fileSize.kib < limitKiB
  IN CASE below(10 * 1024) -> 256
       [] ~below(10 * 1024) /\ below(100 * 1024) -> 512
       [] ~below(100 * 1024) /\ below(1024 * 1024) -> 1024
       [] ~below(1024 * 1024) /\ below(10 * 1024 * 1024) -> 2048
       [] ~below(10 * 1024 * 1024) -> 4096

\* C31: the chunk size computed for the selected file is the one of its
\* tier (256 KiB under 10 MiB, 512 KiB under 100 MiB, 1 MiB under 1 GiB,
\* 2 MiB under 10 GiB, 4 MiB from 10 GiB on), and no larger size tried has
\* a smaller chunk size.
C31_ChunkSizeTiers ==
  sizing.sessionChunkSize # 0 =>
    /\ sizing.sessionChunkSize = TierOf(sizing.fileSize)
    /\ getOptimalChunkSize(sizing.fileSize) = sizing.sessionChunkSize
    /\ \A larger \in ProbeSizes :
         SizeLeq(sizing.fileSize, larger)
           => sizing.sessionChunkSize <= getOptimalChunkSize(larger)

\* A session was created for a file of exactly 10 MiB, the first size of
\* the second tier.
C31_Witness ==
  /\ sizing.fileSize = [kib |-> 10240, rem |-> 0]
  /\ sizing.sessionChunkSize = 512

\* C32 as stated: the session of a file of 260 MiB has chunks of 512 KiB
\* and 521 of them.
C32_Example260MiB ==
  (sizing.fileSize = [kib |-> 260 * 1024, rem |-> 0] /\ sizing.sessionChunkSize # 0)
    => (sizing.sessionChunkSize = 512 /\ sizing.session = 521)

\* C32, amended: the session of a file of 260 MiB has chunks of 1 MiB and
\* 260 of them.
C32_Example260MiB_Tiered ==
  (sizing.fileSize = [kib |-> 260 * 1024, rem |-> 0] /\ sizing.sessionChunkSize # 0)
    => (sizing.sessionChunkSize = 1024 /\ sizing.session = 260)

\* A session was created for a file of 260 MiB.
C32_Witness ==
  /\ sizing.fileSize = [kib |-> 260 * 1024, rem |-> 0]
  /\ sizing.sessionChunkSize # 0 /\ sizing.session # 0

\* C33: the number of chunks sendFileInChunks announces for a file is the
\* number given by the adaptive chunk size, its chunk size is the adaptive
\* one, and both agree with the session initializeSession or
\* processLargeFile creates for the file.
C33_AdaptiveTransfer ==
  sizing.sentChunkSize # 0 =>
    /\ sizing.sentChunkSize = getOptimalChunkSize(sizing.fileSize)
    /\ sizing.announced
         = CeilChunks(sizing.fileSize, getOptimalChunkSize(sizing.fileSize))
    /\ sizing.sessionChunkSize # 0 => sizing.announced = sizing.session
    /\ sizing.processedChunkSize # 0 => sizing.announced = sizing.processed

(***************************************************************************)
(* Properties of SpecLarge.                                                *)
(***************************************************************************)
\* The file-start messages on their way to the receiver.
FileStartsInFlight ==
  {s2r[k] : k \in {j \in 1..Len(s2r) : s2r[j].type = "file-start"}}

\* C34: whether or not the file was processed as a large file, the
\* fileHash of every file-start is the digest the receiver computes over
\* the bytes of the file, also in the handler and in every verification
\* under way; and as long as no message was modified on its way, no
\* download has ended in an integrity mismatch.
C34_OneFingerprintScheme ==
  /\ \A m \in FileStartsInFlight : m.fileHash = Digest(files[m.fileName])
  /\ corruptions = 0 =>
       /\ \A f \in FileNames : downloadErrors[f] # "IntegrityMismatch"
       /\ \A k \in 1..Len(verifying) :
            verifying[k].expectedFileHash = Digest(files[verifying[k].fileName])

\* A file of several chunks that was processed as a large file, whose
\* session holds a fingerprint different from its digest, was downloaded
\* and verified with no message modified.
C34_Witness ==
  /\ corruptions = 0
  /\ \E f \in FileNames :
       /\ processedHash[f] # NoHash
       /\ processedHash[f] # Digest(files[f])
       /\ TotalChunksOf(Len(files[f])) > 1
       /\ f \in verifiedFiles
       /\ downloadedFiles[f] = files[f]

(***************************************************************************)
(* Properties of SpecSaveFail.                                             *)
(***************************************************************************)
\* C36: transferredChunks is within 0..totalChunks and progress within
\* 0..100, and while no call of resumeTransfer is running and the session
\* is stored, transferredChunks is the number of indices of the persisted
\* completedChunks.
C36_StateRange ==
  /\ transferState.transferredChunks \in 0..TotalChunks
  /\ transferState.progress \in 0..100
  /\ (~LoopRunning /\ sessionStore.exists)
       => transferState.transferredChunks = Len(sessionStore.completedChunks)

(***************************************************************************)
(* Properties of SpecStats.                                                *)
(***************************************************************************)
\* C35: a TransferState whose transferSpeed is 0 has a non-finite
\* estimatedTimeRemaining, and one whose transferSpeed is positive has
\* estimatedTimeRemaining = remainingBytes / transferSpeed.
C35_EtaRule ==
  stats.initialized =>
    LET speed == stats.transferSpeed
        eta == stats.estimatedTimeRemaining
        remainingBytes == (TotalChunks - stats.transferredChunks) * StatsChunkSize
    IN /\ speed.num = 0 => eta.den = 0
       /\ speed.num > 0 =>
            /\ eta.den # 0
            /\ eta.num * speed.num = remainingBytes * speed.den * eta.den

(***************************************************************************)
(* Properties of SpecFair.                                                 *)
(***************************************************************************)
\* C37: every sendFileInChunks call that has started eventually resolves or
\* rejects, whatever the peer and the transport do.
C37_CallTerminates ==
  \A r \in Runs : (runs[r].pc # "idle") ~> (runs[r].pc \in {"done", "failed"})

\* A call whose peer never confirmed ended by the final-confirmation timeout.
C37_Witness ==
  \E r \in Runs : runs[r].pc = "failed" /\ runs[r].error = "FinalAckTimeout"

(***************************************************************************)
(* Properties of SpecRepause.                                              *)
(***************************************************************************)
\* C38: while a resumeTransfer loop runs unpaused, transferControllers holds
\* the controller of that loop and the status is not 'error', also when an
\* earlier, paused loop exits in the meantime.
C38_PauseReachesLoop ==
  \A n \in Calls :
    LiveLoop(n) => /\ transferControllers = loops[n].controller
                   /\ transferState.status # "error"

(***************************************************************************)
(* Properties of SpecWorker.                                               *)
(***************************************************************************)
\* C40: once the response stream exists, the chunks received have been
\* enqueued exactly once each and in arrival order, and controller.close()
\* has been called at most once: after the last chunk, and not again by
\* DOWNLOAD_COMPLETE.
C40_StreamedOnce ==
  download.controller =>
    /\ download.enqueued = download.chunks
    /\ download.closeCalls <= 1
    /\ download.closed => download.receivedBytes >= download.size

(***************************************************************************)
(* Properties of Spec: the empty file.                                     *)
(***************************************************************************)
\* C39: a sendFileInChunks call for a file of size 0 that awaits the final
\* confirmation over an open connection is going to receive it: a message is
\* still in flight or the receiver is verifying the file.
C39_EmptyFileSucceeds ==
  \A r \in Runs :
    (runs[r].pc = "final" /\ Len(files[runs[r].file]) = 0 /\ connOpen)
      => (s2r # <<>> \/ r2s # <<>> \/ verifying # <<>>)
====
